---- MODULE Spec2Model ----
(***************************************************************************)
(* The OCR2VRF coordinator (core/services/ocr2/plugins/ocr2vrf/coordinator) *)
(* as a state machine: the two in-flight caches, the mutex guarding them,   *)
(* the chain as seen through the log poller, and the handlers ReportBlocks  *)
(* and ReportWillBeTransmitted.                                             *)
(***************************************************************************)
EXTENDS Integers, Sequences, FiniteSets, TLC

VARIABLES
    chainHeight,               \* what lp.LatestBlock() answers
    toBeTransmittedBlocks,     \* coordinator.toBeTransmittedBlocks
    toBeTransmittedCallbacks,  \* coordinator.toBeTransmittedCallbacks
    transmittedMu,             \* coordinator.transmittedMu: "locked" or "unlocked"
    ret,                       \* the call that has just returned: arguments and results
    claimedBlocks,             \* history: blocks accepted for transmission, their key not evicted since
    claimedCallbacks,          \* history: callbacks accepted for transmission, their key not evicted since
    recordedAt,                \* history: the height at which each block was last recorded, 0 if never
    pc,                        \* concurrent callers: where each one stands
    frame,                     \* concurrent callers: the locals of each one's call
    fnArgs,                    \* pure functions: the arguments drawn
    fnResult                   \* pure functions: what the function returned

vars == <<chainHeight, toBeTransmittedBlocks, toBeTransmittedCallbacks, transmittedMu,
          ret, claimedBlocks, claimedCallbacks, recordedAt, pc, frame, fnArgs, fnResult>>

coordinatorVars == <<chainHeight, toBeTransmittedBlocks, toBeTransmittedCallbacks,
                     transmittedMu, ret, claimedBlocks, claimedCallbacks, recordedAt>>

(***************************************************************************)
(* Bounds of the model.                                                    *)
(***************************************************************************)
MaxBlockNumber == 2
MaxConfDelay == 1
MaxRequestID == 2
MaxOutputs == 2
\* the confirmation delays of a report's outputs: 0..MaxOutputConfDelay
MaxOutputConfDelay == 0
MaxCallbacks == 1
MaxLogs == 2
MaxLogsOnError == 1
MaxChainHeight == 4
FinalityDepth == 1
\* uint64 and int64 are modelled WordBits wide, uint32 HalfWordBits wide
WordBits == 4
HalfWordBits == 3
\* uint8 is modelled ByteBits wide
ByteBits == 2
MaxTransmissions == 2

\* common.HashLength
HashLength == 32

BlockNumbers == 1..MaxBlockNumber
ConfDelays == 0..MaxConfDelay
RequestIDs == 1..MaxRequestID

RECURSIVE Pow2(_)
Pow2(n) == IF n = 0 THEN 1 ELSE 2 * Pow2(n - 1)

UintModulus == Pow2(WordBits)
Uint32Modulus == Pow2(HalfWordBits)
MaxInt == Pow2(WordBits - 1) - 1
MinInt == 0 - Pow2(WordBits - 1)

RECURSIVE SeqsOfLen(_, _)
SeqsOfLen(S, n) ==
    IF n = 0 THEN {<<>>}
    ELSE {Append(s, x) : s \in SeqsOfLen(S, n - 1), x \in S}

SeqsUpTo(S, n) == UNION {SeqsOfLen(S, k) : k \in 0..n}

Range(s) == {s[i] : i \in 1..Len(s)}

(***************************************************************************)
(* Errors are values; nil is the absent error.                             *)
(***************************************************************************)
nil == [msg |-> "nil"]
Errorf(msg, item) == [msg |-> msg, item |-> item]
ErrNew(msg) == [msg |-> msg]
Wrap(err, msg) == [msg |-> msg, cause |-> err]

(***************************************************************************)
(* The keys of the two caches.                                             *)
(***************************************************************************)
\* A common.Hash is HashLength bytes, big-endian; it is written here without
\* its leading zero bytes, so the zero hash is the empty sequence.
ZeroHash == <<>>

RECURSIVE StripLeadingZeros(_)
StripLeadingZeros(b) ==
    IF b # <<>> /\ Head(b) = 0 THEN StripLeadingZeros(Tail(b)) ELSE b

block(blockNumber, confDelay) ==
    [blockHash |-> ZeroHash, blockNumber |-> blockNumber, confDelay |-> confDelay]

callback(blockNumber, requestID) ==
    [blockHash |-> ZeroHash, blockNumber |-> blockNumber, requestID |-> requestID]

Blocks == {block(n, d) : n \in BlockNumbers, d \in ConfDelays}
Callbacks == {callback(n, r) : n \in BlockNumbers, r \in RequestIDs}

\* common.BytesToHash: the last HashLength bytes of b, left-padded with zeros
BytesToHash(b) ==
    StripLeadingZeros(IF Len(b) > HashLength
                      THEN SubSeq(b, Len(b) - HashLength + 1, Len(b))
                      ELSE b)

\* json.Marshal of a struct encodes its exported fields only. block and
\* callback declare blockHash, blockNumber, confDelay and requestID, all of
\* them unexported: the encoding of every item is the two bytes "{}".
jsonMarshal(item) == <<123, 125>>

getCacheKey(item) == BytesToHash(jsonMarshal(item))

(***************************************************************************)
(* BlockCache: a map from key to (item, key, height of insertion) and an   *)
(* eviction window.                                                        *)
(***************************************************************************)
NewBlockCache(evictionWindow) == [evictionWindow |-> evictionWindow, cache |-> {}]

AddItem(c, item, itemKey, blockNumber) ==
    [c EXCEPT !.cache = {e \in @ : e.itemKey # itemKey}
        \cup {[item |-> item, itemKey |-> itemKey, blockNumber |-> blockNumber]}]

\* (item, err): item is a pointer, <<>> when nil
GetItem(c, itemKey) ==
    LET hit == {e \in c.cache : e.itemKey = itemKey}
    IN  IF hit = {}
        THEN [item |-> <<>>, err |-> ErrNew("Cache item does not exist")]
        ELSE [item |-> <<(CHOOSE e \in hit : TRUE).item>>, err |-> nil]

\* an eviction pass that also removes the entries whose window ends at the
\* current height
EvictExpiredItemsInclusive(c, currentBlockHeight) ==
    [c EXCEPT !.cache = {e \in @ : ~(e.blockNumber + c.evictionWindow <= currentBlockHeight)}]

EvictExpiredItems(c, currentBlockHeight) ==
    [c EXCEPT !.cache = {e \in @ : ~(e.blockNumber + c.evictionWindow < currentBlockHeight)}]

InCache(c, item) == GetItem(c, getCacheKey(item)).err = nil

\* New, line 114: int64(finalityDepth * 2), the product taken in uint32
cacheEvictionWindow(finalityDepth) == (finalityDepth * 2) % Uint32Modulus

(***************************************************************************)
(* isBlockEligible, lines 769-773. confDelay is a non-negative big.Int     *)
(* that fits a word: Int64() and Uint64() return it unchanged.             *)
(***************************************************************************)
ToUint64(i) == i % UintModulus

\* an eligibility test that accepts a block at the very height its delay ends
isBlockEligibleInclusive(nextBeaconOutputHeight, confDelay, currentHeight) ==
    /\ confDelay <= currentHeight
    /\ ((nextBeaconOutputHeight + confDelay) % UintModulus) <= ToUint64(currentHeight)

isBlockEligible(nextBeaconOutputHeight, confDelay, currentHeight) ==
    /\ confDelay < currentHeight
    /\ ((nextBeaconOutputHeight + confDelay) % UintModulus) < ToUint64(currentHeight)

(***************************************************************************)
(* The logs of the VRF beacon coordinator contract, and unmarshalLogs,     *)
(* lines 500-575.                                                          *)
(***************************************************************************)
randomnessRequestedTopic == "RandomnessRequested"
randomnessFulfillmentRequestedTopic == "RandomnessFulfillmentRequested"
randomWordsFulfilledTopic == "RandomWordsFulfilled"
newTransmissionTopic == "NewTransmission"

\* the events as the contract wrapper decodes them
RandomnessRequested(nextBeaconOutputHeight, confDelay) ==
    [type |-> randomnessRequestedTopic,
     NextBeaconOutputHeight |-> nextBeaconOutputHeight, ConfDelay |-> confDelay]

RandomnessFulfillmentRequested(nextBeaconOutputHeight, confDelay, requestID) ==
    [type |-> randomnessFulfillmentRequestedTopic,
     NextBeaconOutputHeight |-> nextBeaconOutputHeight, ConfDelay |-> confDelay,
     Callback |-> [RequestID |-> requestID]]

RandomWordsFulfilled(requestIDs, successfulFulfillment) ==
    [type |-> randomWordsFulfilledTopic,
     RequestIDs |-> requestIDs, SuccessfulFulfillment |-> successfulFulfillment]

NewTransmission(outputsServed) ==
    [type |-> newTransmissionTopic, OutputsServed |-> outputsServed]

\* a logpoller.Log: its event signature and its data, here the event the data
\* decodes to
Log(eventSig, data) == [EventSig |-> eventSig, Data |-> data]

\* coordinatorContract.ParseLog: (unpacked, err2)
\* data that decodes to no event
Malformed == [type |-> "malformed"]

ParseLog(rawLog) ==
    IF rawLog.Data = Malformed
    THEN [unpacked |-> <<>>, err |-> ErrNew("abi: cannot unmarshal")]
    ELSE [unpacked |-> rawLog.Data, err |-> nil]

\* unpacked.(*T): the type assertion holds
CastOk(unpacked, type) == unpacked.type = type

NoLogs ==
    [randomnessRequestedLogs |-> <<>>, randomnessFulfillmentRequestedLogs |-> <<>>,
     randomWordsFulfilledLogs |-> <<>>, newTransmissionLogs |-> <<>>, err |-> nil]

\* lines 509-574: the logs from the i-th on; acc holds the named results
RECURSIVE unmarshalFrom(_, _, _)
unmarshalFrom(logs, i, acc) ==
    IF i > Len(logs) THEN acc
    ELSE
    LET lg == logs[i]
        parsed == ParseLog(lg)
    IN  CASE lg.EventSig = randomnessRequestedTopic ->
               IF parsed.err # nil
               THEN [acc EXCEPT !.err = Wrap(parsed.err, "unmarshal RandomnessRequested log")]
               ELSE IF ~CastOk(parsed.unpacked, randomnessRequestedTopic)
               THEN [acc EXCEPT !.err =
                        ErrNew("cast to *VRFBeaconCoordinatorRandomnessRequested")]
               ELSE unmarshalFrom(logs, i + 1,
                        [acc EXCEPT !.randomnessRequestedLogs = Append(@, parsed.unpacked)])
          [] lg.EventSig = randomnessFulfillmentRequestedTopic ->
               IF parsed.err # nil
               THEN [acc EXCEPT !.err =
                        Wrap(parsed.err, "unmarshal RandomnessFulfillmentRequested log")]
               ELSE IF ~CastOk(parsed.unpacked, randomnessFulfillmentRequestedTopic)
               THEN [acc EXCEPT !.err =
                        ErrNew("cast to *VRFBeaconCoordinatorRandomnessFulfillmentRequested")]
               ELSE unmarshalFrom(logs, i + 1,
                        [acc EXCEPT !.randomnessFulfillmentRequestedLogs =
                            Append(@, parsed.unpacked)])
          [] lg.EventSig = randomWordsFulfilledTopic ->
               IF parsed.err # nil
               THEN [acc EXCEPT !.err = Wrap(parsed.err, "unmarshal RandomWordsFulfilled log")]
               ELSE IF ~CastOk(parsed.unpacked, randomWordsFulfilledTopic)
               THEN [acc EXCEPT !.err =
                        ErrNew("cast to *VRFBeaconCoordinatorRandomWordsFulfilled")]
               ELSE unmarshalFrom(logs, i + 1,
                        [acc EXCEPT !.randomWordsFulfilledLogs = Append(@, parsed.unpacked)])
          [] lg.EventSig = newTransmissionTopic ->
               IF parsed.err # nil
               THEN [acc EXCEPT !.err = Wrap(parsed.err, "unmarshal NewTransmission log")]
               ELSE IF ~CastOk(parsed.unpacked, newTransmissionTopic)
               \* lines 562-566: err is set, nothing returns; the nil pointer is
               \* appended and the loop goes on
               THEN unmarshalFrom(logs, i + 1,
                        [acc EXCEPT !.err =
                            ErrNew("cast to *vrf_wrapper.VRFBeaconCoordinatorNewTransmission"),
                                    !.newTransmissionLogs = Append(@, <<>>)])
               ELSE unmarshalFrom(logs, i + 1,
                        [acc EXCEPT !.newTransmissionLogs = Append(@, parsed.unpacked)])
          [] OTHER -> unmarshalFrom(logs, i + 1, acc)

\* the logs taken from the last to the first
unmarshalLogsBackwards(logs) ==
    unmarshalFrom([k \in 1..Len(logs) |-> logs[Len(logs) + 1 - k]], 1, NoLogs)

unmarshalLogs(logs) == unmarshalFrom(logs, 1, NoLogs)

(***************************************************************************)
(* ReportBlocks and its helpers, lines 180-498.                            *)
(***************************************************************************)
\* uint32(x.Uint64())
ToUint32(i) == i % Uint32Modulus

\* lines 471, 425 and 381: the delay is a key of confirmationDelays
supportedDelay(confDelay, confirmationDelays) == ToUint32(confDelay) \in confirmationDelays

\* the block, and the callback, a request log names
requestedBlock(r) == block(r.NextBeaconOutputHeight, ToUint32(r.ConfDelay))
requestedCallback(r) == callback(r.NextBeaconOutputHeight, ToUint64(r.Callback.RequestID))

blockNotInFlightAlways(blkCache, b) == TRUE

\* lines 479-490: transmittedBlock == nil
blockNotInFlight(blkCache, b) == GetItem(blkCache, getCacheKey(b)).item = <<>>

callbackNotInFlightAlways(cbCache, cb) == TRUE

\* lines 433-444: transmittedCallback == nil
callbackNotInFlight(cbCache, cb) == GetItem(cbCache, getCacheKey(cb)).item = <<>>

\* lines 460-498, between Lock and Unlock
filterEligibleRandomnessRequests(rrLogs, confirmationDelays, currentHeight, blkCache) ==
    LET keep(r) ==
            /\ supportedDelay(r.ConfDelay, confirmationDelays)
            /\ blockNotInFlight(blkCache, requestedBlock(r))
            /\ isBlockEligible(r.NextBeaconOutputHeight, r.ConfDelay, currentHeight)
        kept == SelectSeq(rrLogs, keep)
    IN  [unfulfilled |-> [i \in 1..Len(kept) |-> requestedBlock(kept[i])], err |-> nil]

\* lines 414-456, between Lock and Unlock
filterEligibleCallbacks(rfrLogs, confirmationDelays, currentHeight, cbCache) ==
    LET keep(r) ==
            /\ supportedDelay(r.ConfDelay, confirmationDelays)
            /\ callbackNotInFlight(cbCache, requestedCallback(r))
            /\ isBlockEligible(r.NextBeaconOutputHeight, r.ConfDelay, currentHeight)
        kept == SelectSeq(rfrLogs, keep)
    IN  [callbacks |-> kept,
         unfulfilled |-> [i \in 1..Len(kept) |-> requestedBlock(kept[i])],
         err |-> nil]

getFulfilledBlocksNone(newTransmissionLogs) == <<>>

\* lines 323-333
RECURSIVE getFulfilledBlocks(_)
getFulfilledBlocks(newTransmissionLogs) ==
    IF newTransmissionLogs = <<>> THEN <<>>
    ELSE LET served == Head(newTransmissionLogs).OutputsServed
         IN  [i \in 1..Len(served) |->
                 block(served[i].Height, ToUint32(served[i].ConfirmationDelay))]
             \o getFulfilledBlocks(Tail(newTransmissionLogs))

\* lines 355-365: the keys of the map
getFulfilledRequestIDs(randomWordsFulfilledLogs) ==
    UNION {{ToUint64(r.RequestIDs[i]) :
                i \in {k \in 1..Len(r.RequestIDs) : r.SuccessfulFulfillment[k] = 1}}
           : r \in Range(randomWordsFulfilledLogs)}

\* lines 392-404: the fields that identify the request
AbstractCostedCallbackRequest(r) ==
    [BeaconHeight |-> r.NextBeaconOutputHeight,
     ConfirmationDelay |-> ToUint32(r.ConfDelay),
     RequestID |-> ToUint64(r.Callback.RequestID)]

\* lines 369-409
filterUnfulfilledCallbacks(callbacksRequested, fulfilledRequestIDs, confirmationDelays, currentHeight) ==
    LET keep(r) ==
            /\ ToUint64(r.Callback.RequestID) \notin fulfilledRequestIDs
            /\ supportedDelay(r.ConfDelay, confirmationDelays)
            /\ isBlockEligible(r.NextBeaconOutputHeight, r.ConfDelay, currentHeight)
        kept == SelectSeq(callbacksRequested, keep)
    IN  [i \in 1..Len(kept) |-> AbstractCostedCallbackRequest(kept[i])]

\* the hash of the block at height n of the chain the poller follows
BlockHashAt(n) == <<171, n>>

\* lp.GetBlocks: every head asked for; or an error; or the heads but one
GetBlocksAnswers == {"ok", "error", "missing"}

GetBlocks(answer, blockNumbers) ==
    LET head(n) == [BlockNumber |-> n, BlockHash |-> BlockHashAt(n)]
    IN  CASE answer = "ok" -> [heads |-> {head(n) : n \in blockNumbers}, err |-> nil]
          [] answer = "error" -> [heads |-> {}, err |-> ErrNew("GetBlocks failed")]
          [] OTHER ->
               [heads |-> {head(n) : n \in {k \in blockNumbers :
                                               \E j \in blockNumbers : j < k}},
                err |-> nil]

\* a mapping built from whatever heads GetBlocks returns, however many
getBlockhashesMappingUncounted(blockNumbers, answer) ==
    LET got == GetBlocks(answer, blockNumbers)
    IN  [blockhashesMapping |->
             [n \in {h.BlockNumber : h \in got.heads} |->
                 (CHOOSE h \in got.heads : h.BlockNumber = n).BlockHash],
         err |-> got.err]

\* lines 336-352
getBlockhashesMapping(blockNumbers, answer) ==
    LET got == GetBlocks(answer, blockNumbers)
    IN  IF Cardinality(got.heads) # Cardinality(blockNumbers)
        THEN [blockhashesMapping |-> <<>>,
              err |-> Errorf("could not find all heads in db",
                             <<Cardinality(blockNumbers), Cardinality(got.heads)>>)]
        ELSE [blockhashesMapping |->
                 [n \in {h.BlockNumber : h \in got.heads} |->
                     (CHOOSE h \in got.heads : h.BlockNumber = n).BlockHash],
              err |-> got.err]

\* a mapping for the heights of the RandomnessRequested logs alone
getBlockhashesMappingFromRandomnessRequests(rrLogs, rfrLogs, currentHeight, answer) ==
    LET rawBlocksRequested ==
            {l.NextBeaconOutputHeight :
                l \in {r \in Range(rrLogs) :
                          isBlockEligible(r.NextBeaconOutputHeight, r.ConfDelay,
                                          currentHeight)}}
        got == getBlockhashesMapping(rawBlocksRequested, answer)
    IN  IF got.err # nil
        THEN [got EXCEPT !.err = Wrap(@, "get blockhashes for ReportBlocks")]
        ELSE got

\* lines 289-321
getBlockhashesMappingFromRequests(rrLogs, rfrLogs, currentHeight, answer) ==
    LET rawBlocksRequested ==
            {l.NextBeaconOutputHeight :
                l \in {r \in Range(rrLogs) \cup Range(rfrLogs) :
                          isBlockEligible(r.NextBeaconOutputHeight, r.ConfDelay,
                                          currentHeight)}}
        got == getBlockhashesMapping(rawBlocksRequested, answer)
    IN  IF got.err # nil
        THEN [got EXCEPT !.err = Wrap(@, "get blockhashes for ReportBlocks")]
        ELSE got

\* blockhashesMapping[n]: the zero hash for a height that is not a key
HashOf(blockhashesMapping, n) ==
    IF n \in DOMAIN blockhashesMapping THEN blockhashesMapping[n] ELSE ZeroHash

(***************************************************************************)
(* ReportWillBeTransmitted, lines 580-658.                                 *)
(***************************************************************************)
\* VRFProof: empty, or a proof
VRFProofs == {<<>>, <<1>>}

\* an output carries callbacks of its own beacon height
Outputs ==
    UNION {[BlockHeight : {h}, ConfirmationDelay : 0..MaxOutputConfDelay, VRFProof : VRFProofs,
            Callbacks : SeqsUpTo([BeaconHeight : {h}, RequestID : RequestIDs], MaxCallbacks)]
           : h \in BlockNumbers}

RECURSIVE NumCallbacks(_)
NumCallbacks(outputs) ==
    IF outputs = <<>> THEN 0
    ELSE Len(Head(outputs).Callbacks) + NumCallbacks(Tail(outputs))

\* the reports drawn: up to MaxOutputs outputs, up to MaxCallbacks callbacks in all
Reports ==
    {r \in [Outputs : SeqsUpTo(Outputs, MaxOutputs)] : NumCallbacks(r.Outputs) <= MaxCallbacks}

checkCallbacksSkipped(cbs, j, callbacksRequested, cbCache) ==
    [err |-> nil,
     callbacksRequested |-> callbacksRequested \o
        [k \in 1..(Len(cbs) - j + 1) |->
            callback(cbs[j + k - 1].BeaconHeight, cbs[j + k - 1].RequestID)]]

\* lines 610-627: the callbacks of one output, from the j-th on
RECURSIVE checkCallbacks(_, _, _, _)
checkCallbacks(cbs, j, callbacksRequested, cbCache) ==
    IF j > Len(cbs)
    THEN [err |-> nil, callbacksRequested |-> callbacksRequested]
    ELSE LET callbackToStore == callback(cbs[j].BeaconHeight, cbs[j].RequestID)
             key == getCacheKey(callbackToStore)
         IN  IF GetItem(cbCache, key).err = nil
             THEN [err |-> Errorf("Callback is already in-flight", callbackToStore),
                   callbacksRequested |-> callbacksRequested]
             ELSE checkCallbacks(cbs, j + 1, Append(callbacksRequested, callbackToStore), cbCache)

checkBlockSkipped(output, blkCache) == FALSE

\* a conflict check that looks up the block of every output, proof or not
checkBlockAnyProof(output, blkCache) ==
    GetItem(blkCache, getCacheKey(block(output.BlockHeight, output.ConfirmationDelay))).err = nil

\* lines 594-603: is the output's block refused as already in flight
checkBlock(output, blkCache) ==
    /\ Len(output.VRFProof) > 0
    /\ GetItem(blkCache, getCacheKey(block(output.BlockHeight, output.ConfirmationDelay))).err = nil

\* lines 588-628: the outputs of the report, from the i-th on
RECURSIVE checkOutputs(_, _, _, _, _, _)
checkOutputs(outputs, i, blocksRequested, callbacksRequested, blkCache, cbCache) ==
    IF i > Len(outputs)
    THEN [err |-> nil, blocksRequested |-> blocksRequested,
          callbacksRequested |-> callbacksRequested]
    ELSE LET output == outputs[i]
             blockToStore == block(output.BlockHeight, output.ConfirmationDelay)
         IN  IF checkBlock(output, blkCache)
             THEN [err |-> Errorf("Block is already in-flight", blockToStore),
                   blocksRequested |-> blocksRequested,
                   callbacksRequested |-> callbacksRequested]
             ELSE LET blocks2 == IF Len(output.VRFProof) > 0
                                 THEN Append(blocksRequested, blockToStore)
                                 ELSE blocksRequested
                      cbs == checkCallbacks(output.Callbacks, 1, callbacksRequested, cbCache)
                  IN  IF cbs.err # nil
                      THEN [err |-> cbs.err, blocksRequested |-> blocks2,
                            callbacksRequested |-> cbs.callbacksRequested]
                      ELSE checkOutputs(outputs, i + 1, blocks2, cbs.callbacksRequested,
                                        blkCache, cbCache)

\* lines 584-628
validateReport(report, blkCache, cbCache) ==
    checkOutputs(report.Outputs, 1, <<>>, <<>>, blkCache, cbCache)

\* lines 636-642 and 645-651: AddItem for each item, in order
RECURSIVE addItems(_, _, _, _)
addItems(c, items, i, latestBlock) ==
    IF i > Len(items) THEN c
    ELSE addItems(AddItem(c, items[i], getCacheKey(items[i]), latestBlock),
                  items, i + 1, latestBlock)

\* the items are stored and no eviction pass follows
storeAndKeep(c, items, latestBlock) == addItems(c, items, 1, latestBlock)

\* lines 635-655 for one cache
storeAndEvict(c, items, latestBlock) ==
    EvictExpiredItems(addItems(c, items, 1, latestBlock), latestBlock)

\* history: what has been accepted and whose key is still in the cache
StillClaimed(claimed, items, c) ==
    {it \in claimed \cup Range(items) : InCache(c, it)}

\* no call has returned that the caller has not taken
NoCall == [op |-> "none"]

\* lp.LatestBlock(): the height of the chain or, as the poller may fail, an error
LatestBlockAnswers == {"ok", "error"}

LatestBlock(answer, height) ==
    IF answer = "ok"
    THEN [height |-> height, err |-> nil]
    ELSE [height |-> 0, err |-> ErrNew("LatestBlock failed")]

reportWillBeTransmittedEager(report, blkCache, cbCache, latest) ==
    LET v == validateReport(report, blkCache, cbCache)
        blks == storeAndEvict(blkCache, v.blocksRequested, latest.height)
        cbs == storeAndEvict(cbCache, v.callbacksRequested, latest.height)
    IN  IF v.err # nil
        THEN [err |-> v.err, blocks |-> blks, callbacks |-> cbs,
              blocksRequested |-> <<>>, callbacksRequested |-> <<>>,
              latestBlock |-> <<>>]
        ELSE IF latest.err # nil
        THEN [err |-> Wrap(latest.err, "Getting latest block in ReportWillBeTransmitted"),
              blocks |-> blkCache, callbacks |-> cbCache,
              blocksRequested |-> <<>>, callbacksRequested |-> <<>>,
              latestBlock |-> <<latest>>]
        ELSE [err |-> nil, blocks |-> blks, callbacks |-> cbs,
              blocksRequested |-> v.blocksRequested,
              callbacksRequested |-> v.callbacksRequested,
              latestBlock |-> <<latest>>]

\* a call that stores the items before it asks for the latest block
reportWillBeTransmittedStoreFirst(report, blkCache, cbCache, latest) ==
    LET v == validateReport(report, blkCache, cbCache)
        blks == storeAndEvict(blkCache, v.blocksRequested, latest.height)
        cbs == storeAndEvict(cbCache, v.callbacksRequested, latest.height)
    IN  IF v.err # nil
        THEN [err |-> v.err, blocks |-> blkCache, callbacks |-> cbCache,
              blocksRequested |-> <<>>, callbacksRequested |-> <<>>,
              latestBlock |-> <<>>]
        ELSE IF latest.err # nil
        THEN [err |-> Wrap(latest.err, "Getting latest block in ReportWillBeTransmitted"),
              blocks |-> blks, callbacks |-> cbs,
              blocksRequested |-> <<>>, callbacksRequested |-> <<>>,
              latestBlock |-> <<latest>>]
        ELSE [err |-> nil, blocks |-> blks, callbacks |-> cbs,
              blocksRequested |-> v.blocksRequested,
              callbacksRequested |-> v.callbacksRequested,
              latestBlock |-> <<latest>>]

\* lines 584-657 between Lock and Unlock: the error returned, the two caches
\* as the call leaves them, what it has stored, and the answer of LatestBlock
\* (<<>> when the call returns before it asks)
reportWillBeTransmitted(report, blkCache, cbCache, latest) ==
    LET v == validateReport(report, blkCache, cbCache)
    IN  IF v.err # nil
        THEN [err |-> v.err, blocks |-> blkCache, callbacks |-> cbCache,
              blocksRequested |-> <<>>, callbacksRequested |-> <<>>,
              latestBlock |-> <<>>]
        ELSE IF latest.err # nil
        THEN [err |-> Wrap(latest.err, "Getting latest block in ReportWillBeTransmitted"),
              blocks |-> blkCache, callbacks |-> cbCache,
              blocksRequested |-> <<>>, callbacksRequested |-> <<>>,
              latestBlock |-> <<latest>>]
        ELSE [err |-> nil,
              blocks |-> storeAndEvict(blkCache, v.blocksRequested, latest.height),
              callbacks |-> storeAndEvict(cbCache, v.callbacksRequested, latest.height),
              blocksRequested |-> v.blocksRequested,
              callbacksRequested |-> v.callbacksRequested,
              latestBlock |-> <<latest>>]

\* a Lock() that does not wait
muFreeAlways(mu) == TRUE

\* line 581, c.transmittedMu.Lock(): it returns once no one holds the mutex
muFree(mu) == mu = "unlocked"

ReportWillBeTransmitted(report) ==
    /\ ret = NoCall
    /\ muFree(transmittedMu)
    /\ \E answer \in LatestBlockAnswers :
         \E r \in {reportWillBeTransmitted(report, toBeTransmittedBlocks,
                                            toBeTransmittedCallbacks,
                                            LatestBlock(answer, chainHeight))} :
             /\ toBeTransmittedBlocks' = r.blocks
             /\ toBeTransmittedCallbacks' = r.callbacks
             /\ claimedBlocks' = StillClaimed(claimedBlocks, r.blocksRequested, r.blocks)
             /\ claimedCallbacks' = StillClaimed(claimedCallbacks, r.callbacksRequested, r.callbacks)
             /\ ret' = [op |-> "ReportWillBeTransmitted", report |-> report,
                        latestBlock |-> r.latestBlock, err |-> r.err]
    /\ UNCHANGED <<chainHeight, transmittedMu, pc, fnArgs, fnResult>>

(***************************************************************************)
(* ReportBlocks, lines 180-286.                                            *)
(***************************************************************************)
\* the fulfilment flags of a RandomWordsFulfilled log
SuccessFlags == {0, 1}

\* the logs lp.LogsWithSigs can find in the lookback window
ChainLogs ==
    {Log(randomnessRequestedTopic, RandomnessRequested(n, d))
        : n \in BlockNumbers, d \in ConfDelays}
    \cup {Log(randomnessFulfillmentRequestedTopic, RandomnessFulfillmentRequested(n, d, r))
        : n \in BlockNumbers, d \in ConfDelays, r \in RequestIDs}
    \cup {Log(randomWordsFulfilledTopic, RandomWordsFulfilled(<<r>>, <<f>>))
        : r \in RequestIDs, f \in SuccessFlags}
    \cup {Log(newTransmissionTopic,
              NewTransmission(<<[Height |-> n, ConfirmationDelay |-> d]>>))
        : n \in BlockNumbers, d \in ConfDelays}
    \cup {Log("ConfigSet", Malformed)}

\* what the log poller answers to the queries of one ReportBlocks call:
\* LatestBlock fails; or LogsWithSigs fails; or both answer, and GetBlocks
\* answers in one of its ways (when it does not answer every head, the logs
\* drawn are MaxLogsOnError at most)
PollerAnswers ==
    {[latestBlock |-> "error"]}
    \cup {[latestBlock |-> "ok", logsWithSigs |-> "error"]}
    \cup [latestBlock : {"ok"}, logsWithSigs : {"ok"},
          logs : SeqsUpTo(ChainLogs, MaxLogs), getBlocks : {"ok"}]
    \cup [latestBlock : {"ok"}, logsWithSigs : {"ok"},
          logs : SeqsUpTo(ChainLogs, MaxLogsOnError), getBlocks : GetBlocksAnswers \ {"ok"}]

\* lp.LogsWithSigs: (logs, err)
LogsWithSigs(answers) ==
    IF answers.logsWithSigs = "ok"
    THEN [logs |-> answers.logs, err |-> nil]
    ELSE [logs |-> <<>>, err |-> ErrNew("LogsWithSigs failed")]

\* the supported delays the caller passes
ConfirmationDelaySets == {S \in SUBSET ConfDelays : 0 \in S}

\* lines 189-285: (blocks, callbacks, err). The blocks are appended in the
\* order in which the map blocksRequested is ranged over, which the language
\* leaves open: they are given as a set.
reportBlocks(confirmationDelays, answers, blkCache, cbCache, height) ==
    LET failed(err) == [blocks |-> {}, callbacks |-> <<>>, err |-> err]
        latest == LatestBlock(answers.latestBlock, height)
    IN
    IF latest.err # nil THEN failed(Wrap(latest.err, "header by number")) ELSE
    LET currentHeight == latest.height
        found == LogsWithSigs(answers)
    IN
    IF found.err # nil THEN failed(Wrap(found.err, "logs with topics")) ELSE
    LET logs == unmarshalLogs(found.logs)
    IN
    IF logs.err # nil THEN failed(Wrap(logs.err, "unmarshal logs")) ELSE
    LET hashes == getBlockhashesMappingFromRequests(
                      logs.randomnessRequestedLogs,
                      logs.randomnessFulfillmentRequestedLogs,
                      currentHeight, answers.getBlocks)
    IN
    IF hashes.err # nil THEN failed(Wrap(hashes.err, "get blockhashes in ReportBlocks")) ELSE
    LET requests == filterEligibleRandomnessRequests(
                        logs.randomnessRequestedLogs, confirmationDelays,
                        currentHeight, blkCache)
    IN
    IF requests.err # nil THEN failed(Wrap(requests.err, "filter requests in ReportBlocks")) ELSE
    LET eligible == filterEligibleCallbacks(
                        logs.randomnessFulfillmentRequestedLogs, confirmationDelays,
                        currentHeight, cbCache)
    IN
    IF eligible.err # nil THEN failed(Wrap(eligible.err, "filter clalbacks in ReportBlocks")) ELSE
    LET blocksRequested ==
            (Range(requests.unfulfilled) \cup Range(eligible.unfulfilled))
                \ Range(getFulfilledBlocks(logs.newTransmissionLogs))
        fulfilledRequestIDs == getFulfilledRequestIDs(logs.randomWordsFulfilledLogs)
    IN  [blocks |-> {[Hash |-> HashOf(hashes.blockhashesMapping, b.blockNumber),
                      Height |-> b.blockNumber,
                      ConfirmationDelay |-> b.confDelay] : b \in blocksRequested},
         callbacks |-> filterUnfulfilledCallbacks(eligible.callbacks, fulfilledRequestIDs,
                                                  confirmationDelays, currentHeight),
         err |-> nil]

\* The two filters take the mutex one after the other, each for its own pass;
\* no other call runs in between here.
\* a ReportBlocks that takes a block it returns for being in flight from then on
ReportBlocksMarking(confirmationDelays) ==
    /\ ret = NoCall
    /\ muFree(transmittedMu)
    /\ \E answers \in PollerAnswers :
         \E r \in {reportBlocks(confirmationDelays, answers, toBeTransmittedBlocks,
                                toBeTransmittedCallbacks, chainHeight)} :
             /\ ret' = [op |-> "ReportBlocks", confirmationDelays |-> confirmationDelays,
                        answers |-> answers, currentHeight |-> chainHeight,
                        blocks |-> r.blocks, callbacks |-> r.callbacks, err |-> r.err]
             /\ toBeTransmittedBlocks' =
                   IF r.blocks = {} THEN toBeTransmittedBlocks
                   ELSE LET b == CHOOSE b \in r.blocks : TRUE
                            item == block(b.Height, b.ConfirmationDelay)
                        IN  AddItem(toBeTransmittedBlocks, item, getCacheKey(item), chainHeight)
    /\ UNCHANGED <<chainHeight, toBeTransmittedCallbacks,
                   transmittedMu, claimedBlocks, claimedCallbacks, recordedAt,
                   pc, frame, fnArgs, fnResult>>

ReportBlocks(confirmationDelays) ==
    /\ ret = NoCall
    /\ muFree(transmittedMu)
    /\ \E answers \in PollerAnswers :
         \E r \in {reportBlocks(confirmationDelays, answers, toBeTransmittedBlocks,
                                toBeTransmittedCallbacks, chainHeight)} :
             ret' = [op |-> "ReportBlocks", confirmationDelays |-> confirmationDelays,
                     answers |-> answers, currentHeight |-> chainHeight,
                     blocks |-> r.blocks, callbacks |-> r.callbacks, err |-> r.err]
    /\ UNCHANGED <<chainHeight, toBeTransmittedBlocks, toBeTransmittedCallbacks,
                   transmittedMu, claimedBlocks, claimedCallbacks, recordedAt,
                   pc, frame, fnArgs, fnResult>>

(***************************************************************************)
(* The chain grows by one block.                                           *)
(***************************************************************************)
AdvanceHeight ==
    /\ ret = NoCall
    /\ chainHeight < MaxChainHeight
    /\ chainHeight' = chainHeight + 1
    /\ UNCHANGED <<toBeTransmittedBlocks, toBeTransmittedCallbacks, transmittedMu, ret,
                   claimedBlocks, claimedCallbacks, recordedAt, pc, frame, fnArgs, fnResult>>

(***************************************************************************)
(* The caller has taken the result of its call and goes on.                *)
(***************************************************************************)
Return ==
    /\ ret # NoCall
    /\ ret' = NoCall
    /\ UNCHANGED <<chainHeight, toBeTransmittedBlocks, toBeTransmittedCallbacks,
                   transmittedMu, claimedBlocks, claimedCallbacks, recordedAt,
                   pc, frame, fnArgs, fnResult>>

\* New, lines 85-130: the coordinator as constructed, on a chain of one block
New ==
    /\ chainHeight = 1
    /\ toBeTransmittedBlocks = NewBlockCache(cacheEvictionWindow(FinalityDepth))
    /\ toBeTransmittedCallbacks = NewBlockCache(cacheEvictionWindow(FinalityDepth))
    /\ transmittedMu = "unlocked"
    /\ ret = NoCall
    /\ claimedBlocks = {}
    /\ claimedCallbacks = {}
    /\ recordedAt = [b \in Blocks |-> 0]

Init ==
    /\ New
    /\ pc = <<>>
    /\ frame = <<>>
    /\ fnArgs = <<>>
    /\ fnResult = <<>>

Transmit ==
    /\ \E report \in Reports : ReportWillBeTransmitted(report)
    /\ UNCHANGED <<recordedAt, frame>>

Next ==
    \/ Transmit
    \/ AdvanceHeight
    \/ Return

Spec == Init /\ [][Next]_vars

(***************************************************************************)
(* Two goroutines call ReportWillBeTransmitted on one coordinator. Each    *)
(* call is taken step by step: Lock, the loop over the outputs, the        *)
(* LatestBlock query, the insertions and the eviction, the deferred        *)
(* Unlock.                                                                 *)
(***************************************************************************)
Callers == {1, 2}

\* the reports of the concurrent callers: one output at most
ConcReports == {r \in Reports : Len(r.Outputs) <= 1}

\* line 580: the call is made
Call(p) ==
    /\ pc[p] = "idle"
    /\ \E report \in ConcReports :
         frame' = [frame EXCEPT ![p] = [report |-> report]]
    /\ pc' = [pc EXCEPT ![p] = "Lock"]
    /\ UNCHANGED <<coordinatorVars, fnArgs, fnResult>>

\* line 581
Lock(p) ==
    /\ pc[p] = "Lock"
    /\ muFree(transmittedMu)
    /\ transmittedMu' = "locked"
    /\ pc' = [pc EXCEPT ![p] = "validate"]
    /\ UNCHANGED <<chainHeight, toBeTransmittedBlocks, toBeTransmittedCallbacks, ret,
                   claimedBlocks, claimedCallbacks, recordedAt, frame, fnArgs, fnResult>>

\* lines 584-628
Validate(p) ==
    /\ pc[p] = "validate"
    /\ \E v \in {validateReport(frame[p].report, toBeTransmittedBlocks,
                                toBeTransmittedCallbacks)} :
         /\ frame' = [frame EXCEPT ![p] =
                        [report |-> frame[p].report, err |-> v.err,
                         blocksRequested |-> v.blocksRequested,
                         callbacksRequested |-> v.callbacksRequested]]
         /\ pc' = [pc EXCEPT ![p] = IF v.err # nil THEN "Unlock" ELSE "LatestBlock"]
    /\ UNCHANGED <<coordinatorVars, fnArgs, fnResult>>

\* lines 630-633
QueryLatestBlock(p) ==
    /\ pc[p] = "LatestBlock"
    /\ \E answer \in LatestBlockAnswers :
         \E latest \in {LatestBlock(answer, chainHeight)} :
            IF latest.err # nil
            THEN /\ frame' = [frame EXCEPT ![p] =
                        [report |-> frame[p].report,
                         err |-> Wrap(latest.err,
                                      "Getting latest block in ReportWillBeTransmitted")]]
                 /\ pc' = [pc EXCEPT ![p] = "Unlock"]
            ELSE /\ frame' = [frame EXCEPT ![p] =
                        [report |-> frame[p].report, err |-> nil,
                         blocksRequested |-> frame[p].blocksRequested,
                         callbacksRequested |-> frame[p].callbacksRequested,
                         latestBlock |-> latest.height]]
                 /\ pc' = [pc EXCEPT ![p] = "AddItem"]
    /\ UNCHANGED <<coordinatorVars, fnArgs, fnResult>>

\* lines 635-657
Commit(p) ==
    /\ pc[p] = "AddItem"
    /\ toBeTransmittedBlocks' =
          storeAndEvict(toBeTransmittedBlocks, frame[p].blocksRequested, frame[p].latestBlock)
    /\ toBeTransmittedCallbacks' =
          storeAndEvict(toBeTransmittedCallbacks, frame[p].callbacksRequested,
                        frame[p].latestBlock)
    /\ claimedBlocks' =
          StillClaimed(claimedBlocks, frame[p].blocksRequested, toBeTransmittedBlocks')
    /\ claimedCallbacks' =
          StillClaimed(claimedCallbacks, frame[p].callbacksRequested,
                       toBeTransmittedCallbacks')
    /\ frame' = [frame EXCEPT ![p] = [report |-> frame[p].report, err |-> nil]]
    /\ pc' = [pc EXCEPT ![p] = "Unlock"]
    /\ UNCHANGED <<chainHeight, transmittedMu, ret, recordedAt, fnArgs, fnResult>>

\* line 582, the deferred Unlock, and the return
Unlock(p) ==
    /\ pc[p] = "Unlock"
    /\ transmittedMu' = "unlocked"
    /\ pc' = [pc EXCEPT ![p] = "returned"]
    /\ UNCHANGED <<chainHeight, toBeTransmittedBlocks, toBeTransmittedCallbacks, ret,
                   claimedBlocks, claimedCallbacks, recordedAt, frame, fnArgs, fnResult>>

InitConc ==
    /\ New
    /\ pc = [p \in Callers |-> "idle"]
    /\ frame = [p \in Callers |-> <<>>]
    /\ fnArgs = <<>>
    /\ fnResult = <<>>

NextConc ==
    \/ \E p \in Callers : Call(p)
    \/ \E p \in Callers : Lock(p)
    \/ \E p \in Callers : Validate(p)
    \/ \E p \in Callers : QueryLatestBlock(p)
    \/ \E p \in Callers : Commit(p)
    \/ \E p \in Callers : Unlock(p)
    \/ AdvanceHeight

SpecConc == InitConc /\ [][NextConc]_vars

(***************************************************************************)
(* isBlockEligible on its own: the arguments are drawn, the function is    *)
(* called once.                                                            *)
(***************************************************************************)
\* nextBeaconOutputHeight is a uint64, confDelay a delay the contract accepts,
\* currentHeight an int64
EligibleArgs ==
    [nextBeaconOutputHeight : 0..(UintModulus - 1),
     confDelay : ConfDelays,
     currentHeight : MinInt..MaxInt]

CallIsBlockEligible ==
    /\ fnResult = <<>>
    /\ fnResult' = <<isBlockEligible(fnArgs.nextBeaconOutputHeight, fnArgs.confDelay,
                                     fnArgs.currentHeight)>>
    /\ UNCHANGED <<coordinatorVars, pc, frame, fnArgs>>

InitEligible ==
    /\ New
    /\ pc = <<>>
    /\ frame = <<>>
    /\ fnArgs \in EligibleArgs
    /\ fnResult = <<>>

NextEligible == CallIsBlockEligible

SpecEligible == InitEligible /\ [][NextEligible]_vars

(***************************************************************************)
(* The cache alone: two entries are inserted under two keys, each at its   *)
(* own height, then one eviction pass runs and the two keys are looked up. *)
(***************************************************************************)
CacheArgs ==
    [insertedAt : SeqsOfLen(0..MaxChainHeight, 2),
     evictionWindow : {cacheEvictionWindow(f) : f \in 0..FinalityDepth},
     currentHeight : 0..(MaxChainHeight + cacheEvictionWindow(FinalityDepth) + 1)]

\* the key of the i-th entry
CacheKey(i) == BytesToHash(<<i>>)

CallEvictExpiredItems ==
    /\ fnResult = <<>>
    /\ \E filled \in {AddItem(AddItem(NewBlockCache(fnArgs.evictionWindow),
                                      block(fnArgs.insertedAt[1], 0), CacheKey(1),
                                      fnArgs.insertedAt[1]),
                              block(fnArgs.insertedAt[2], 0), CacheKey(2),
                              fnArgs.insertedAt[2])} :
         \E swept \in {EvictExpiredItems(filled, fnArgs.currentHeight)} :
             fnResult' = <<[i \in 1..2 |-> GetItem(swept, CacheKey(i))]>>
    /\ UNCHANGED <<coordinatorVars, pc, frame, fnArgs>>

InitCache ==
    /\ New
    /\ pc = <<>>
    /\ frame = <<>>
    /\ fnArgs \in CacheArgs
    /\ fnResult = <<>>

NextCache == CallEvictExpiredItems

SpecCache == InitCache /\ [][NextCache]_vars

(***************************************************************************)
(* ReportIsOnchain, lines 134-163, and toEpochAndRoundUint40, 778-780.     *)
(* epoch is a uint32 (HalfWordBits wide here) and round a uint8 (ByteBits  *)
(* wide here); a byte holds ByteBits bits. The int64 sum of line 779 has   *)
(* at most 40 bits and cannot wrap.                                        *)
(***************************************************************************)
ByteModulus == Pow2(ByteBits)
Epochs == 0..(Uint32Modulus - 1)
Rounds == 0..(ByteModulus - 1)

\* (int64(epoch) << 8) + int64(round) with the epoch alone, unshifted
toEpochAndRoundUnshifted(epoch, round) == epoch + round

toEpochAndRoundUint40(epoch, round) == (epoch * ByteModulus) + round

\* big.Int.Bytes: the big-endian bytes of the absolute value, none for zero
RECURSIVE Bytes(_)
Bytes(n) == IF n = 0 THEN <<>> ELSE Append(Bytes(n \div ByteModulus), n % ByteModulus)

\* common.LeftPadBytes
LeftPadBytes(slice, l) ==
    IF l <= Len(slice) THEN slice
    ELSE [i \in 1..(l - Len(slice)) |-> 0] \o slice

\* Hash.Big: the number a hash holds, read big-endian
RECURSIVE HashBig(_)
HashBig(h) ==
    IF h = <<>> THEN 0
    ELSE (HashBig(SubSeq(h, 1, Len(h) - 1)) * ByteModulus) + h[Len(h)]

\* the NewTransmission log the contract emits for a report of (epoch, round):
\* topic 0 is the event signature, topic 1 the indexed aggregatorRoundId
\* (some number: here the epoch) and topic 2 the indexed uint40
\* epochAndRound, each a 32-byte word
TransmissionLog(epoch, round) ==
    [EventSig |-> newTransmissionTopic,
     Topics |-> <<BytesToHash(<<1>>),
                  BytesToHash(LeftPadBytes(Bytes(epoch), HashLength)),
                  BytesToHash(LeftPadBytes(Bytes((epoch * ByteModulus) + round), HashLength))>>]

IndexedLogsAnswers == {"ok", "error"}

\* lp.IndexedLogs(eventSig, address, topicIndex, topicValues, confs): the logs
\* of the event whose topic at topicIndex is one of topicValues
IndexedLogs(answer, chainLogs, eventSig, topicIndex, topicValues) ==
    IF answer = "ok"
    THEN [logs |-> SelectSeq(chainLogs,
                             LAMBDA l : /\ l.EventSig = eventSig
                                        /\ l.Topics[topicIndex + 1] \in Range(topicValues)),
          err |-> nil]
    ELSE [logs |-> <<>>, err |-> ErrNew("IndexedLogs failed")]

\* lines 134-163: (presentOnchain, err)
ReportIsOnchain(epoch, round, answer, chainLogs) ==
    LET epochAndRound == toEpochAndRoundUint40(epoch, round)
        enrTopic == BytesToHash(LeftPadBytes(Bytes(epochAndRound), HashLength))
        found == IndexedLogs(answer, chainLogs, newTransmissionTopic, 2, <<enrTopic>>)
    IN  IF found.err # nil
        THEN [presentOnchain |-> FALSE, err |-> Wrap(found.err, "log poller IndexedLogs")]
        ELSE [presentOnchain |-> Len(found.logs) >= 1, err |-> nil]

OnchainArgs ==
    [epoch : Epochs, round : Rounds,
     transmitted : SeqsUpTo(Epochs \X Rounds, MaxTransmissions),
     indexedLogs : IndexedLogsAnswers]

\* the logs on the chain: one NewTransmission for each report transmitted
TransmissionLogs(transmitted) ==
    [i \in 1..Len(transmitted) |-> TransmissionLog(transmitted[i][1], transmitted[i][2])]

CallReportIsOnchain ==
    /\ fnResult = <<>>
    /\ fnResult' = <<ReportIsOnchain(fnArgs.epoch, fnArgs.round, fnArgs.indexedLogs,
                                     TransmissionLogs(fnArgs.transmitted))>>
    /\ UNCHANGED <<coordinatorVars, pc, frame, fnArgs>>

InitOnchain ==
    /\ New
    /\ pc = <<>>
    /\ frame = <<>>
    /\ fnArgs \in OnchainArgs
    /\ fnResult = <<>>

NextOnchain == CallReportIsOnchain

SpecOnchain == InitOnchain /\ [][NextOnchain]_vars

(***************************************************************************)
(* getCacheKey alone, lines 799-806: one item is stored under its key in   *)
(* an empty cache, as at lines 637-641, and another item of the same type  *)
(* is looked up by its key, as at lines 479-489.                           *)
(***************************************************************************)
KeyArgs ==
    [inserted : Blocks, lookedUp : Blocks, atHeight : 1..MaxChainHeight]
    \cup [inserted : Callbacks, lookedUp : Callbacks, atHeight : 1..MaxChainHeight]

CallGetCacheKey ==
    /\ fnResult = <<>>
    /\ \E stored \in {AddItem(NewBlockCache(cacheEvictionWindow(FinalityDepth)),
                              fnArgs.inserted, getCacheKey(fnArgs.inserted),
                              fnArgs.atHeight)} :
         fnResult' = <<[insertedKey |-> getCacheKey(fnArgs.inserted),
                        lookedUpKey |-> getCacheKey(fnArgs.lookedUp),
                        found |-> GetItem(stored, getCacheKey(fnArgs.lookedUp))]>>
    /\ UNCHANGED <<coordinatorVars, pc, frame, fnArgs>>

InitKey ==
    /\ New
    /\ pc = <<>>
    /\ frame = <<>>
    /\ fnArgs \in KeyArgs
    /\ fnResult = <<>>

NextKey == CallGetCacheKey

SpecKey == InitKey /\ [][NextKey]_vars

(***************************************************************************)
(* What a report carries.                                                  *)
(***************************************************************************)
OutputBlock(output) == block(output.BlockHeight, output.ConfirmationDelay)

OutputCallbacks(output) ==
    {callback(output.Callbacks[j].BeaconHeight, output.Callbacks[j].RequestID)
        : j \in 1..Len(output.Callbacks)}

\* the outputs that carry block b with a non-empty proof
ProofOutputsOf(report, b) ==
    {i \in 1..Len(report.Outputs) :
        /\ Len(report.Outputs[i].VRFProof) > 0
        /\ OutputBlock(report.Outputs[i]) = b}

CarriesBlock(report, b) == ProofOutputsOf(report, b) # {}

CarriesCallback(report, cb) ==
    \E i \in 1..Len(report.Outputs) : cb \in OutputCallbacks(report.Outputs[i])

\* this step is a call of ReportWillBeTransmitted
IsTransmitCall == ret.op = "none" /\ ret'.op = "ReportWillBeTransmitted"

BlockInFlight == "Block is already in-flight"
CallbackInFlight == "Callback is already in-flight"

(***************************************************************************)
(* ReportBlocks and ReportWillBeTransmitted called one after the other, in *)
(* any order, on a growing chain. recordedAt keeps the height of the last  *)
(* successful call that carried each block.                                *)
(***************************************************************************)
TransmitRecorded ==
    /\ \E report \in ConcReports : ReportWillBeTransmitted(report)
    /\ recordedAt' =
          [b \in Blocks |->
              IF ret'.err = nil /\ CarriesBlock(ret'.report, b)
              THEN chainHeight ELSE recordedAt[b]]
    /\ UNCHANGED frame

Report == \E confirmationDelays \in ConfirmationDelaySets : ReportBlocks(confirmationDelays)

NextReport ==
    \/ TransmitRecorded
    \/ Report
    \/ AdvanceHeight
    \/ Return

SpecReport == Init /\ [][NextReport]_vars

(***************************************************************************)
(* ReportWillBeTransmitted called again and again on a growing chain, for  *)
(* reports of blocks alone. recordedAt keeps the height at which each      *)
(* block was last handed to AddItem, and frame the height of the last      *)
(* eviction pass (0 before the first).                                     *)
(***************************************************************************)
BlockReports ==
    {r \in Reports : \A i \in 1..Len(r.Outputs) : r.Outputs[i].Callbacks = <<>>}

TransmitLogged ==
    /\ \E report \in BlockReports : ReportWillBeTransmitted(report)
    /\ recordedAt' =
          [b \in Blocks |->
              IF ret'.err = nil /\ CarriesBlock(ret'.report, b)
              THEN ret'.latestBlock[1].height ELSE recordedAt[b]]
    /\ frame' = IF ret'.err = nil THEN [lastPass |-> ret'.latestBlock[1].height] ELSE frame

InitLogged ==
    /\ New
    /\ pc = <<>>
    /\ frame = [lastPass |-> 0]
    /\ fnArgs = <<>>
    /\ fnResult = <<>>

NextLogged ==
    \/ TransmitLogged
    \/ AdvanceHeight
    \/ Return

SpecLogged == InitLogged /\ [][NextLogged]_vars

(***************************************************************************)
(* New, lines 114 and 127-128, for every finalityDepth of its type: the    *)
(* two caches built with the window computed at line 114, then an item     *)
(* inserted in the block cache at one height and an eviction pass made at  *)
(* another.                                                                *)
(***************************************************************************)
WindowArgs ==
    [finalityDepth : 0..(Uint32Modulus - 1),
     insertedAt : 0..MaxChainHeight,
     currentHeight : 0..MaxChainHeight]

CallNew ==
    /\ fnResult = <<>>
    /\ \E w \in {cacheEvictionWindow(fnArgs.finalityDepth)} :
         fnResult' =
            <<[toBeTransmittedBlocks |-> NewBlockCache(w),
               toBeTransmittedCallbacks |-> NewBlockCache(w),
               swept |-> EvictExpiredItems(
                             AddItem(NewBlockCache(w), block(fnArgs.insertedAt, 0),
                                     getCacheKey(block(fnArgs.insertedAt, 0)),
                                     fnArgs.insertedAt),
                             fnArgs.currentHeight)]>>
    /\ UNCHANGED <<coordinatorVars, pc, frame, fnArgs>>

InitWindow ==
    /\ New
    /\ pc = <<>>
    /\ frame = <<>>
    /\ fnArgs \in WindowArgs
    /\ fnResult = <<>>

NextWindow == CallNew

SpecWindow == InitWindow /\ [][NextWindow]_vars

(***************************************************************************)
(* ReportBlocks beside a concurrent ReportWillBeTransmitted. ReportBlocks  *)
(* holds the mutex twice, once in filterEligibleRandomnessRequests (line   *)
(* 468) and once in filterEligibleCallbacks (line 422), and not in         *)
(* between: a ReportWillBeTransmitted, which holds it for its whole body   *)
(* (581-582), can run before the first filter, between the two, or after   *)
(* the second. frame keeps the arguments of the ReportBlocks call, the     *)
(* block cache as the first filter read it, and the states of the two      *)
(* caches since the call began. The chain does not grow meanwhile.         *)
(***************************************************************************)
\* the log poller answers every query of the call, and finds one
\* RandomnessRequested and one RandomnessFulfillmentRequested log that name
\* the same beacon block
RequestAnswers ==
    {a \in [latestBlock : {"ok"}, logsWithSigs : {"ok"},
            logs : SeqsOfLen(ChainLogs, 2), getBlocks : {"ok"}] :
        /\ a.logs[1].EventSig = randomnessRequestedTopic
        /\ a.logs[2].EventSig = randomnessFulfillmentRequestedTopic
        /\ requestedBlock(a.logs[1].Data) = requestedBlock(a.logs[2].Data)}

\* lines 189-246: up to the return of filterEligibleRandomnessRequests
ReportBlocksFilterRequests ==
    /\ pc = <<>>
    /\ muFree(transmittedMu)
    /\ \E confirmationDelays \in ConfirmationDelaySets, answers \in RequestAnswers :
         frame' = [confirmationDelays |-> confirmationDelays, answers |-> answers,
                   currentHeight |-> chainHeight,
                   toBeTransmittedBlocks |-> toBeTransmittedBlocks,
                   seen |-> {<<toBeTransmittedBlocks, toBeTransmittedCallbacks>>}]
    /\ pc' = <<"filterEligibleCallbacks">>
    /\ UNCHANGED <<coordinatorVars, fnArgs, fnResult>>

\* lines 247-285: from filterEligibleCallbacks to the return
ReportBlocksFilterCallbacks ==
    /\ pc = <<"filterEligibleCallbacks">>
    /\ muFree(transmittedMu)
    /\ fnResult' = <<reportBlocks(frame.confirmationDelays, frame.answers,
                                  frame.toBeTransmittedBlocks, toBeTransmittedCallbacks,
                                  frame.currentHeight)>>
    /\ pc' = <<"return">>
    /\ UNCHANGED <<coordinatorVars, frame, fnArgs>>

\* the caller of ReportBlocks has taken the result
ReportBlocksReturn ==
    /\ pc = <<"return">>
    /\ pc' = <<>>
    /\ frame' = <<>>
    /\ fnResult' = <<>>
    /\ UNCHANGED <<coordinatorVars, fnArgs>>

\* lines 580-658, in one piece under the mutex
TransmitBeside ==
    /\ \E report \in ConcReports : ReportWillBeTransmitted(report)
    /\ frame' = IF pc = <<"filterEligibleCallbacks">>
                THEN [frame EXCEPT !.seen =
                         @ \cup {<<toBeTransmittedBlocks', toBeTransmittedCallbacks'>>}]
                ELSE frame
    /\ UNCHANGED recordedAt

\* the coordinator as constructed (lines 85-130), on a chain of any height
InitInterleaved ==
    /\ chainHeight \in 1..MaxChainHeight
    /\ toBeTransmittedBlocks = NewBlockCache(cacheEvictionWindow(FinalityDepth))
    /\ toBeTransmittedCallbacks = NewBlockCache(cacheEvictionWindow(FinalityDepth))
    /\ transmittedMu = "unlocked"
    /\ ret = NoCall
    /\ claimedBlocks = {}
    /\ claimedCallbacks = {}
    /\ recordedAt = [b \in Blocks |-> 0]
    /\ pc = <<>>
    /\ frame = <<>>
    /\ fnArgs = <<>>
    /\ fnResult = <<>>

NextInterleaved ==
    \/ ReportBlocksFilterRequests
    \/ ReportBlocksFilterCallbacks
    \/ ReportBlocksReturn
    \/ TransmitBeside
    \/ Return

SpecInterleaved == InitInterleaved /\ [][NextInterleaved]_vars

(***************************************************************************)
(* unmarshalLogs, lines 500-575, on the logs of any signature with any     *)
(* data: the data of a log may decode to the event of its signature, to    *)
(* another event, or to none.                                              *)
(***************************************************************************)
MaxUnmarshalLogs == 3

VRFTopics ==
    {randomnessRequestedTopic, randomnessFulfillmentRequestedTopic,
     randomWordsFulfilledTopic, newTransmissionTopic}

AnyLogs ==
    {Log(sig, data) :
        sig \in VRFTopics \cup {"ConfigSet"},
        data \in {RandomnessRequested(1, 0), RandomnessRequested(2, 0),
                  RandomnessFulfillmentRequested(1, 0, 1),
                  RandomWordsFulfilled(<<1>>, <<1>>),
                  NewTransmission(<<[Height |-> 1, ConfirmationDelay |-> 0]>>),
                  Malformed}}

CallUnmarshalLogs ==
    /\ fnResult = <<>>
    /\ fnResult' = <<unmarshalLogs(fnArgs)>>
    /\ UNCHANGED <<coordinatorVars, pc, frame, fnArgs>>

InitUnmarshal ==
    /\ New
    /\ pc = <<>>
    /\ frame = <<>>
    /\ fnArgs \in SeqsUpTo(AnyLogs, MaxUnmarshalLogs)
    /\ fnResult = <<>>

NextUnmarshal == CallUnmarshalLogs

SpecUnmarshal == InitUnmarshal /\ [][NextUnmarshal]_vars

(***************************************************************************)
(* DKGVRFCommittees, lines 663-710. A ConfigSet query is answered with an  *)
(* error, with a log whose data does not unpack, or with a log that        *)
(* unpacks to signers and transmitters, two arrays of any lengths.         *)
(***************************************************************************)
MaxSigners == 2
MaxAddress == 2

Addresses == 1..MaxAddress

ConfigSetAnswers ==
    {[latest |-> "error"]}
    \cup {[latest |-> "ok", unpack |-> "error"]}
    \cup [latest : {"ok"}, unpack : {"ok"},
          Signers : SeqsUpTo(Addresses, MaxSigners),
          Transmitters : SeqsUpTo(Addresses, MaxSigners)]

\* lp.LatestLogByEventSigWithConfs: (log, err)
LatestLogByEventSigWithConfs(answer) ==
    IF answer.latest = "ok" THEN [log |-> answer, err |-> nil]
    ELSE [log |-> answer, err |-> ErrNew("LatestLogByEventSigWithConfs failed")]

\* abi.UnpackIntoInterface: err
UnpackIntoInterface(log) ==
    IF log.unpack = "ok" THEN nil ELSE ErrNew("abi: cannot unpack")

NoCommittee == [Signers |-> <<>>, Transmitters |-> <<>>]

\* lines 698-701 and 703-706: the loop over the indices of Signers, from the
\* i-th on; Transmitters[i] beyond its length is a run-time panic
RECURSIVE appendCommittee(_, _, _)
appendCommittee(configSetLog, i, committee) ==
    IF i > Len(configSetLog.Signers) THEN [committee |-> committee, panic |-> FALSE]
    ELSE IF i > Len(configSetLog.Transmitters)
    THEN [committee |-> [committee EXCEPT !.Signers = Append(@, configSetLog.Signers[i])],
          panic |-> TRUE]
    ELSE appendCommittee(configSetLog, i + 1,
             [Signers |-> Append(committee.Signers, configSetLog.Signers[i]),
              Transmitters |-> Append(committee.Transmitters, configSetLog.Transmitters[i])])

\* lines 663-710: (dkgCommittee, vrfCommittee, err), or a panic
DKGVRFCommittees(vrfAnswer, dkgAnswer) ==
    LET failed(err) == [dkgCommittee |-> NoCommittee, vrfCommittee |-> NoCommittee,
                        err |-> err, panic |-> FALSE]
        latestVRF == LatestLogByEventSigWithConfs(vrfAnswer)
        latestDKG == LatestLogByEventSigWithConfs(dkgAnswer)
    IN
    IF latestVRF.err # nil
    THEN failed(Wrap(latestVRF.err, "latest vrf ConfigSet by sig with confs")) ELSE
    IF latestDKG.err # nil
    THEN failed(Wrap(latestDKG.err, "latest dkg ConfigSet by sig with confs")) ELSE
    IF UnpackIntoInterface(latestVRF.log) # nil
    THEN failed(Wrap(UnpackIntoInterface(latestVRF.log),
                     "unpack vrf ConfigSet into interface")) ELSE
    IF UnpackIntoInterface(latestDKG.log) # nil
    THEN failed(Wrap(UnpackIntoInterface(latestDKG.log),
                     "unpack dkg ConfigSet into interface")) ELSE
    LET vrf == appendCommittee(latestVRF.log, 1, NoCommittee)
    IN
    IF vrf.panic
    THEN [dkgCommittee |-> NoCommittee, vrfCommittee |-> vrf.committee,
          err |-> nil, panic |-> TRUE]
    ELSE
    LET dkg == appendCommittee(latestDKG.log, 1, NoCommittee)
    IN  [dkgCommittee |-> dkg.committee, vrfCommittee |-> vrf.committee,
         err |-> nil, panic |-> dkg.panic]

CallDKGVRFCommittees ==
    /\ fnResult = <<>>
    /\ fnResult' = <<DKGVRFCommittees(fnArgs.vrf, fnArgs.dkg)>>
    /\ UNCHANGED <<coordinatorVars, pc, frame, fnArgs>>

InitCommittees ==
    /\ New
    /\ pc = <<>>
    /\ frame = <<>>
    /\ fnArgs \in [vrf : ConfigSetAnswers, dkg : ConfigSetAnswers]
    /\ fnResult = <<>>

NextCommittees == CallDKGVRFCommittees

SpecCommittees == InitCommittees /\ [][NextCommittees]_vars

(***************************************************************************)
(* Calls that go on for ever: the callers of ReportWillBeTransmitted call  *)
(* again once they have returned, and beside them one caller of            *)
(* ReportBlocks does the same. ReportBlocks takes the mutex in             *)
(* filterEligibleRandomnessRequests (lines 468-469) and again in           *)
(* filterEligibleCallbacks (422-423), each time with a deferred Unlock.    *)
(* The chain does not grow meanwhile.                                      *)
(***************************************************************************)
Reporter == 0

\* what the log poller answers to the ReportBlocks calls: a failure of
\* LatestBlock or of LogsWithSigs, or the logs of two requests for the first
\* block
ReporterAnswers ==
    {[latestBlock |-> "error"], [latestBlock |-> "ok", logsWithSigs |-> "error"]}
    \cup {a \in RequestAnswers : requestedBlock(a.logs[1].Data) = block(1, 0)}

\* the reports the callers of ReportWillBeTransmitted are given: the first
\* block with its proof, with or without a callback
ReporterReports ==
    {r \in ConcReports :
        /\ Len(r.Outputs) = 1
        /\ r.Outputs[1].BlockHeight = 1
        /\ r.Outputs[1].ConfirmationDelay = 0
        /\ r.Outputs[1].VRFProof # <<>>}

\* line 580: the call is made
CallAgain(p) ==
    /\ pc[p] = "idle"
    /\ \E report \in ReporterReports :
         frame' = [frame EXCEPT ![p] = [report |-> report]]
    /\ pc' = [pc EXCEPT ![p] = "Lock"]
    /\ UNCHANGED <<coordinatorVars, fnArgs, fnResult>>

\* lines 189-233: the queries and the decoding, without the mutex; a failure
\* returns at once
ReportBlocksCall ==
    /\ pc[Reporter] = "idle"
    /\ \E answers \in ReporterAnswers :
         \E r \in {reportBlocks(ConfDelays, answers, toBeTransmittedBlocks,
                                toBeTransmittedCallbacks, chainHeight)} :
            IF answers \notin RequestAnswers
            THEN /\ frame' = [frame EXCEPT ![Reporter] = [err |-> r.err]]
                 /\ pc' = [pc EXCEPT ![Reporter] = "returned"]
            ELSE /\ frame' = [frame EXCEPT ![Reporter] =
                        [answers |-> answers, currentHeight |-> chainHeight]]
                 /\ pc' = [pc EXCEPT ![Reporter] = "filterEligibleRandomnessRequests"]
    /\ UNCHANGED <<coordinatorVars, fnArgs, fnResult>>

\* line 468 and line 422: c.transmittedMu.Lock() of the filter the call is at
FilterLock ==
    /\ pc[Reporter] \in {"filterEligibleRandomnessRequests", "filterEligibleCallbacks"}
    /\ muFree(transmittedMu)
    /\ transmittedMu' = "locked"
    /\ pc' = [pc EXCEPT ![Reporter] = IF @ = "filterEligibleRandomnessRequests"
                                      THEN "scanRandomnessRequests"
                                      ELSE "scanCallbacks"]
    /\ UNCHANGED <<chainHeight, toBeTransmittedBlocks, toBeTransmittedCallbacks, ret,
                   claimedBlocks, claimedCallbacks, recordedAt, frame, fnArgs, fnResult>>

\* a filter that returns with the mutex held
FilterRequestsKeepingLock ==
    /\ pc[Reporter] = "scanRandomnessRequests"
    /\ frame' = [frame EXCEPT ![Reporter] =
                    [answers |-> frame[Reporter].answers,
                     currentHeight |-> frame[Reporter].currentHeight,
                     toBeTransmittedBlocks |-> toBeTransmittedBlocks]]
    /\ pc' = [pc EXCEPT ![Reporter] = "filterEligibleCallbacks"]
    /\ UNCHANGED <<coordinatorVars, fnArgs, fnResult>>

\* lines 471-497 and the deferred Unlock of line 469: the scan of the
\* RandomnessRequested logs reads the block cache as it is now
FilterRequests ==
    /\ pc[Reporter] = "scanRandomnessRequests"
    /\ frame' = [frame EXCEPT ![Reporter] =
                    [answers |-> frame[Reporter].answers,
                     currentHeight |-> frame[Reporter].currentHeight,
                     toBeTransmittedBlocks |-> toBeTransmittedBlocks]]
    /\ transmittedMu' = "unlocked"
    /\ pc' = [pc EXCEPT ![Reporter] = "filterEligibleCallbacks"]
    /\ UNCHANGED <<chainHeight, toBeTransmittedBlocks, toBeTransmittedCallbacks, ret,
                   claimedBlocks, claimedCallbacks, recordedAt, fnArgs, fnResult>>

\* lines 425-455 with the deferred Unlock of line 423, and lines 256-285:
\* the scan of the RandomnessFulfillmentRequested logs reads the callback
\* cache as it is now, and the call returns
FilterCallbacks ==
    /\ pc[Reporter] = "scanCallbacks"
    /\ \E r \in {reportBlocks(ConfDelays, frame[Reporter].answers,
                              frame[Reporter].toBeTransmittedBlocks,
                              toBeTransmittedCallbacks, frame[Reporter].currentHeight)} :
         frame' = [frame EXCEPT ![Reporter] = [err |-> r.err]]
    /\ transmittedMu' = "unlocked"
    /\ pc' = [pc EXCEPT ![Reporter] = "returned"]
    /\ UNCHANGED <<chainHeight, toBeTransmittedBlocks, toBeTransmittedCallbacks, ret,
                   claimedBlocks, claimedCallbacks, recordedAt, fnArgs, fnResult>>

\* the caller has taken the result and is free to call again
Again(p) ==
    /\ pc[p] = "returned"
    /\ pc' = [pc EXCEPT ![p] = "idle"]
    /\ frame' = [frame EXCEPT ![p] = <<>>]
    /\ UNCHANGED <<coordinatorVars, fnArgs, fnResult>>

\* the coordinator as constructed (lines 85-130), on a chain of one block or
\* on a chain where the requested blocks are old enough
InitLive ==
    /\ chainHeight \in {1, MaxChainHeight}
    /\ toBeTransmittedBlocks = NewBlockCache(cacheEvictionWindow(FinalityDepth))
    /\ toBeTransmittedCallbacks = NewBlockCache(cacheEvictionWindow(FinalityDepth))
    /\ transmittedMu = "unlocked"
    /\ ret = NoCall
    /\ claimedBlocks = {}
    /\ claimedCallbacks = {}
    /\ recordedAt = [b \in Blocks |-> 0]
    /\ pc = [p \in Callers \cup {Reporter} |-> "idle"]
    /\ frame = [p \in Callers \cup {Reporter} |-> <<>>]
    /\ fnArgs = <<>>
    /\ fnResult = <<>>

NextLive ==
    \/ \E p \in Callers : CallAgain(p)
    \/ \E p \in Callers : Lock(p)
    \/ \E p \in Callers : Validate(p)
    \/ \E p \in Callers : QueryLatestBlock(p)
    \/ \E p \in Callers : Commit(p)
    \/ \E p \in Callers : Unlock(p)
    \/ ReportBlocksCall
    \/ FilterLock
    \/ FilterRequests
    \/ FilterCallbacks
    \/ \E p \in Callers \cup {Reporter} : Again(p)

\* the scheduler runs every goroutine that can take a step; sync.Mutex hands
\* the mutex to a goroutine that has waited (its starvation mode), so a
\* caller that finds the mutex free again and again does get it
SpecLive ==
    /\ InitLive
    /\ [][NextLive]_vars
    /\ \A p \in Callers :
          /\ WF_vars(Validate(p)) /\ WF_vars(QueryLatestBlock(p))
          /\ WF_vars(Commit(p)) /\ WF_vars(Unlock(p))
          /\ SF_vars(Lock(p))
    /\ WF_vars(FilterRequests) /\ WF_vars(FilterCallbacks)
    /\ SF_vars(FilterLock)

C2_OneOutputPerWindow ==
    [][(IsTransmitCall /\ ret'.err = nil)
        => \A b \in Blocks :
              Cardinality(ProofOutputsOf(ret'.report, b))
                + (IF b \in claimedBlocks THEN 1 ELSE 0) <= 1]_vars

(***************************************************************************)
(* C2, amended: between two evictions of the key of block B at most one    *)
(* call carrying B in an output with a proof succeeds; the outputs of that *)
(* one report are all accepted, also when two of them carry B.             *)
(***************************************************************************)
C2_OneCallPerWindow ==
    [][(IsTransmitCall /\ ret'.err = nil)
        => \A b \in Blocks :
              CarriesBlock(ret'.report, b)
              => b \notin claimedBlocks /\ b \in claimedBlocks']_vars

\* a report carrying one block in two outputs with proofs has been accepted
C2_Witness ==
    /\ ret.op = "ReportWillBeTransmitted"
    /\ ret.err = nil
    /\ \E b \in claimedBlocks : Cardinality(ProofOutputsOf(ret.report, b)) = 2

C4_AllOrNothing ==
    [][(IsTransmitCall /\ ret'.err # nil)
        => /\ toBeTransmittedBlocks' = toBeTransmittedBlocks
           /\ toBeTransmittedCallbacks' = toBeTransmittedCallbacks]_vars

\* a call has failed on a callback after a block of its report had passed
C4_Witness ==
    /\ ret.op = "ReportWillBeTransmitted"
    /\ ret.err.msg = CallbackInFlight
    /\ \E b \in Blocks :
          CarriesBlock(ret.report, b) /\ ~InCache(toBeTransmittedBlocks, b)

SharesItem(r1, r2) ==
    \/ \E b \in Blocks : CarriesBlock(r1, b) /\ CarriesBlock(r2, b)
    \/ \E cb \in Callbacks : CarriesCallback(r1, cb) /\ CarriesCallback(r2, cb)

Succeeded(p) == pc[p] = "returned" /\ frame[p].err = nil

HoldsLock(p) == pc[p] \in {"validate", "LatestBlock", "AddItem", "Unlock"}

(***************************************************************************)
(* C5: when two calls of ReportWillBeTransmitted run concurrently and      *)
(* their reports share a block carried with a proof, or a callback, that   *)
(* is not in the cache when they start, at most one of the two returns     *)
(* without error, in every interleaving; and the two calls are never both  *)
(* between their Lock and their Unlock.                                    *)
(***************************************************************************)
C5_AtMostOneSucceeds ==
    \A p, q \in Callers :
        p # q =>
            /\ ~(HoldsLock(p) /\ HoldsLock(q))
            /\ (Succeeded(p) /\ Succeeded(q))
                => ~SharesItem(frame[p].report, frame[q].report)

\* one call has stored a block while the other, for the same block, waits for
\* the mutex
C5_Witness ==
    /\ pc[1] = "Unlock" /\ frame[1].err = nil
    /\ pc[2] = "Lock"
    /\ \E b \in Blocks : CarriesBlock(frame[1].report, b) /\ CarriesBlock(frame[2].report, b)

(***************************************************************************)
(* C10: for every nextBeaconOutputHeight and confDelay, isBlockEligible is *)
(* false for every currentHeight <= nextBeaconOutputHeight + confDelay and *)
(* true for every greater currentHeight; that is, it is true iff           *)
(* confDelay < currentHeight and nextBeaconOutputHeight + confDelay <      *)
(* currentHeight, the sum being the sum of the integers.                   *)
(***************************************************************************)
C10_EligibleIffOlderThanDelay ==
    fnResult # <<>> =>
        /\ fnResult[1] <=>
              (fnArgs.nextBeaconOutputHeight + fnArgs.confDelay < fnArgs.currentHeight)
        /\ fnResult[1] <=>
              /\ fnArgs.confDelay < fnArgs.currentHeight
              /\ fnArgs.nextBeaconOutputHeight + fnArgs.confDelay < fnArgs.currentHeight

(***************************************************************************)
(* What a ReportBlocks call was given and what it returned.                *)
(***************************************************************************)
\* the call has returned without error
ReportBlocksReturned == ret.op = "ReportBlocks" /\ ret.err = nil

\* the events of one kind among the logs the poller gave to the call
EventsOf(topic) ==
    {ret.answers.logs[i].Data :
        i \in {k \in 1..Len(ret.answers.logs) : ret.answers.logs[k].EventSig = topic}}

ReturnedBlocks == {block(b.Height, b.ConfirmationDelay) : b \in ret.blocks}

ReturnedCallbacks ==
    {callback(ret.callbacks[i].BeaconHeight, ret.callbacks[i].RequestID)
        : i \in 1..Len(ret.callbacks)}

BlockOfRequest(r) == block(r.NextBeaconOutputHeight, r.ConfDelay)
CallbackOfRequest(r) == callback(r.NextBeaconOutputHeight, r.Callback.RequestID)

\* the blocks in the OutputsServed of the NewTransmission logs
ServedBlocks ==
    UNION {{block(t.OutputsServed[i].Height, t.OutputsServed[i].ConfirmationDelay)
                : i \in 1..Len(t.OutputsServed)}
           : t \in EventsOf(newTransmissionTopic)}

\* the request has a supported delay and is older than its delay at the
\* height of the call
Reportable(r) ==
    /\ r.ConfDelay \in ret.confirmationDelays
    /\ r.ConfDelay < ret.currentHeight
    /\ r.NextBeaconOutputHeight + r.ConfDelay < ret.currentHeight

\* B is returned, and no RandomnessFulfillmentRequested log names it
ReturnedForRandomnessRequested(B) ==
    /\ B \in ReturnedBlocks
    /\ \A r \in EventsOf(randomnessFulfillmentRequestedTopic) : BlockOfRequest(r) # B

(***************************************************************************)
(* C6: once ReportWillBeTransmitted has recorded block B at height H, no   *)
(* ReportBlocks call returns B on account of a RandomnessRequested log     *)
(* while B's entry is in the block cache; a call that does return B on     *)
(* that account runs at a height greater than H + evictionWindow and finds *)
(* B in no NewTransmission log.                                            *)
(***************************************************************************)
C6_NotReofferedWhileInFlight ==
    ReportBlocksReturned =>
        \A B \in Blocks :
            (recordedAt[B] # 0 /\ ReturnedForRandomnessRequested(B))
            => /\ B \notin claimedBlocks
               /\ ~InCache(toBeTransmittedBlocks, B)
               /\ ret.currentHeight > recordedAt[B] + toBeTransmittedBlocks.evictionWindow
               /\ B \notin ServedBlocks

\* a reportable RandomnessRequested log names a block that is in flight, and
\* the call has not returned the block
C6_Witness ==
    /\ ReportBlocksReturned
    /\ \E r \in EventsOf(randomnessRequestedTopic) :
          /\ Reportable(r)
          /\ BlockOfRequest(r) \in claimedBlocks
          /\ BlockOfRequest(r) \notin ReturnedBlocks

(***************************************************************************)
(* C7: a callback that is in the callback cache is not among the callbacks *)
(* ReportBlocks returns, and every block returned is named by a            *)
(* RandomnessRequested log or by the RandomnessFulfillmentRequested log of *)
(* a callback that is not in the cache.                                    *)
(***************************************************************************)
C7_InFlightCallbackNotReturned ==
    ReportBlocksReturned =>
        /\ \A cb \in claimedCallbacks : cb \notin ReturnedCallbacks
        /\ \A B \in ReturnedBlocks :
              \/ \E r \in EventsOf(randomnessRequestedTopic) : BlockOfRequest(r) = B
              \/ \E r \in EventsOf(randomnessFulfillmentRequestedTopic) :
                    /\ BlockOfRequest(r) = B
                    /\ CallbackOfRequest(r) \notin claimedCallbacks

\* a reportable RandomnessFulfillmentRequested log names a callback that is in
\* flight: the call has returned neither the callback nor its block
C7_Witness ==
    /\ ReportBlocksReturned
    /\ \E r \in EventsOf(randomnessFulfillmentRequestedTopic) :
          /\ Reportable(r)
          /\ CallbackOfRequest(r) \in claimedCallbacks
          /\ CallbackOfRequest(r) \notin ReturnedCallbacks
          /\ BlockOfRequest(r) \notin ReturnedBlocks

(***************************************************************************)
(* C8: a block in the OutputsServed of a NewTransmission log among the     *)
(* logs is not among the blocks ReportBlocks returns, whatever the caches  *)
(* hold and whichever kind of log requests the block.                      *)
(***************************************************************************)
C8_ServedBlockNotReturned ==
    ReportBlocksReturned => ReturnedBlocks \cap ServedBlocks = {}

\* a block is requested by a reportable log, nothing is in flight, and a
\* NewTransmission log has served the block: it is not returned
C8_Witness ==
    /\ ReportBlocksReturned
    /\ toBeTransmittedBlocks.cache = {}
    /\ toBeTransmittedCallbacks.cache = {}
    /\ \E r \in EventsOf(randomnessRequestedTopic)
                    \cup EventsOf(randomnessFulfillmentRequestedTopic) :
          /\ Reportable(r)
          /\ BlockOfRequest(r) \in ServedBlocks
          /\ BlockOfRequest(r) \notin ReturnedBlocks

\* the requestIDs the RandomWordsFulfilled logs list with one of the flags
FlaggedRequestIDs(flags) ==
    UNION {{f.RequestIDs[i] : i \in {k \in 1..Len(f.RequestIDs) :
                                        f.SuccessfulFulfillment[k] \in flags}}
           : f \in EventsOf(randomWordsFulfilledTopic)}

(***************************************************************************)
(* C9: no callback ReportBlocks returns has its requestID in a             *)
(* RandomWordsFulfilled log with the success flag 1; and a request whose   *)
(* requestID is in such logs only with a flag other than 1 is returned     *)
(* when it has a supported delay, is older than its delay and is not in    *)
(* flight.                                                                 *)
(***************************************************************************)
C9_OnlySuccessfulFulfilmentsCount ==
    ReportBlocksReturned =>
        /\ \A i \in 1..Len(ret.callbacks) :
              ret.callbacks[i].RequestID \notin FlaggedRequestIDs({1})
        /\ \A r \in EventsOf(randomnessFulfillmentRequestedTopic) :
              (/\ r.Callback.RequestID \in FlaggedRequestIDs(SuccessFlags \ {1})
               /\ r.Callback.RequestID \notin FlaggedRequestIDs({1})
               /\ Reportable(r)
               /\ CallbackOfRequest(r) \notin claimedCallbacks)
              => CallbackOfRequest(r) \in ReturnedCallbacks

(***************************************************************************)
(* C11: every block and every callback ReportBlocks returns at the current *)
(* height h has a confirmation delay in the confirmationDelays of the call *)
(* and a height with height + confirmationDelay < h.                       *)
(***************************************************************************)
C11_ReturnedAreSupportedAndOld ==
    ReportBlocksReturned =>
        /\ \A b \in ret.blocks :
              /\ b.ConfirmationDelay \in ret.confirmationDelays
              /\ b.Height + b.ConfirmationDelay < ret.currentHeight
        /\ \A i \in 1..Len(ret.callbacks) :
              /\ ret.callbacks[i].ConfirmationDelay \in ret.confirmationDelays
              /\ ret.callbacks[i].BeaconHeight + ret.callbacks[i].ConfirmationDelay
                    < ret.currentHeight

\* the call returns a block and a callback, and among the logs there are a
\* request with an unsupported delay and a request that is not old enough
C11_Witness ==
    /\ ReportBlocksReturned
    /\ ret.blocks # {}
    /\ ret.callbacks # <<>>
    /\ \E r \in EventsOf(randomnessRequestedTopic)
                    \cup EventsOf(randomnessFulfillmentRequestedTopic) :
          \/ r.ConfDelay \notin ret.confirmationDelays
          \/ r.NextBeaconOutputHeight + r.ConfDelay >= ret.currentHeight

\* a ReportBlocks call has returned and the poller had given it the logs
LogsObtained ==
    /\ ret.op = "ReportBlocks"
    /\ ret.answers.latestBlock = "ok"
    /\ ret.answers.logsWithSigs = "ok"

\* a request log whose confirmation delay the caller does not support
UnsupportedRequest(rawLog) ==
    /\ rawLog.EventSig \in {randomnessRequestedTopic, randomnessFulfillmentRequestedTopic}
    /\ rawLog.Data.ConfDelay \notin ret.confirmationDelays

\* what the call returns when the poller's logs are those of the call less
\* the requests with an unsupported delay
WithoutUnsupported ==
    reportBlocks(ret.confirmationDelays,
                 [ret.answers EXCEPT !.logs = SelectSeq(@, LAMBDA l : ~UnsupportedRequest(l))],
                 toBeTransmittedBlocks, toBeTransmittedCallbacks, ret.currentHeight)

(***************************************************************************)
(* C12: the request logs with an unsupported confirmation delay add        *)
(* nothing to what ReportBlocks returns and do not make it fail: the call  *)
(* returns the blocks and callbacks the other logs alone give, and it      *)
(* succeeds whenever it succeeds on the other logs alone.                  *)
(***************************************************************************)
C12_UnsupportedDelayIsSkipped ==
    LogsObtained =>
        /\ ret.blocks = WithoutUnsupported.blocks
        /\ ret.callbacks = WithoutUnsupported.callbacks
        /\ WithoutUnsupported.err = nil => ret.err = nil

\* what a second ReportBlocks call returns when it is made in this state with
\* the confirmationDelays of the call that has just returned, the height of
\* the chain, its logs and its block hashes being those of that call
SecondReportBlocks ==
    reportBlocks(ret.confirmationDelays, ret.answers,
                 toBeTransmittedBlocks, toBeTransmittedCallbacks, ret.currentHeight)

Retrievable(i) == fnResult[1][i].err = nil

(***************************************************************************)
(* C14: an entry inserted at height H is still retrievable after an        *)
(* eviction pass at height H + evictionWindow and is absent after one at   *)
(* height H + evictionWindow + 1: a pass at height c removes exactly the   *)
(* entries with insertedAtHeight + evictionWindow < c.                     *)
(***************************************************************************)
C14_EvictsExactlyTheExpired ==
    fnResult # <<>> =>
        \A i \in 1..2 :
            /\ Retrievable(i) <=>
                  ~(fnArgs.insertedAt[i] + fnArgs.evictionWindow < fnArgs.currentHeight)
            /\ fnArgs.currentHeight = fnArgs.insertedAt[i] + fnArgs.evictionWindow
                  => Retrievable(i)
            /\ fnArgs.currentHeight = fnArgs.insertedAt[i] + fnArgs.evictionWindow + 1
                  => ~Retrievable(i)
            /\ Retrievable(i) =>
                  fnResult[1][i].item = <<block(fnArgs.insertedAt[i], 0)>>

\* one pass, run at the last height of the first entry's window and one
\* past the window of the second: the first is found, the second is not
C14_Witness ==
    /\ fnResult # <<>>
    /\ fnArgs.evictionWindow > 0
    /\ fnArgs.currentHeight = fnArgs.insertedAt[1] + fnArgs.evictionWindow
    /\ fnArgs.currentHeight = fnArgs.insertedAt[2] + fnArgs.evictionWindow + 1
    /\ Retrievable(1)
    /\ ~Retrievable(2)

\* the LatestBlock query of the ReportWillBeTransmitted call of this step has failed
LatestBlockFailed ==
    /\ IsTransmitCall
    /\ ret'.latestBlock # <<>>
    /\ ret'.latestBlock[1].err # nil

(***************************************************************************)
(* C15: when the LatestBlock query of ReportWillBeTransmitted fails, the   *)
(* call returns an error and leaves both caches as they were: no entry is  *)
(* inserted and none is evicted.                                           *)
(***************************************************************************)
C15_LatestBlockFailureLeavesCaches ==
    [][LatestBlockFailed
        => /\ ret'.err # nil
           /\ ret'.err.msg = "Getting latest block in ReportWillBeTransmitted"
           /\ toBeTransmittedBlocks' = toBeTransmittedBlocks
           /\ toBeTransmittedCallbacks' = toBeTransmittedCallbacks
           /\ claimedBlocks' = claimedBlocks
           /\ claimedCallbacks' = claimedCallbacks]_vars

\* the query has failed for a report whose callback had been validated,
\* at a height where the block cache holds an entry that an eviction pass
\* would remove: the entry is still there and the callback is not stored
C15_Witness ==
    /\ ret.op = "ReportWillBeTransmitted"
    /\ ret.latestBlock # <<>>
    /\ ret.latestBlock[1].err # nil
    /\ \E cb \in Callbacks : CarriesCallback(ret.report, cb)
    /\ toBeTransmittedCallbacks.cache = {}
    /\ \E e \in toBeTransmittedBlocks.cache :
          e.blockNumber + toBeTransmittedBlocks.evictionWindow < chainHeight

\* the call has reached GetBlocks: the poller has given the latest block and
\* the logs, and the logs have been decoded
GetBlocksAsked ==
    /\ LogsObtained
    /\ unmarshalLogs(ret.answers.logs).err = nil

\* the heights asked of GetBlocks: those of the requests that are older than
\* their delay at the height of the call
RequestedHeights ==
    {r.NextBeaconOutputHeight :
        r \in {q \in EventsOf(randomnessRequestedTopic)
                        \cup EventsOf(randomnessFulfillmentRequestedTopic) :
                  /\ q.ConfDelay < ret.currentHeight
                  /\ q.NextBeaconOutputHeight + q.ConfDelay < ret.currentHeight}}

\* what the poller has answered
HeadsReturned == GetBlocks(ret.answers.getBlocks, RequestedHeights)

\* exactly one head for each height asked
OneHeadPerHeight ==
    /\ Cardinality(HeadsReturned.heads) = Cardinality(RequestedHeights)
    /\ {h.BlockNumber : h \in HeadsReturned.heads} = RequestedHeights

PollerReturnsTopic(n) ==
    /\ fnArgs.indexedLogs = "ok"
    /\ \E i \in 1..Len(fnArgs.transmitted) :
          HashBig(TransmissionLogs(fnArgs.transmitted)[i].Topics[3]) = n

(***************************************************************************)
(* C17: ReportIsOnchain(epoch, round) returns true iff the log poller      *)
(* returns at least one NewTransmission log whose indexed topic equals the *)
(* packed value epoch * 256 + round; distinct (epoch, round) pairs have    *)
(* distinct packed values and topics, and every packed value is below      *)
(* 2^40 (here: 256 is ByteModulus and 40 is HalfWordBits + ByteBits).      *)
(***************************************************************************)
C17_OnchainIffTopicFound ==
    fnResult # <<>> =>
        /\ fnResult[1].presentOnchain
              <=> PollerReturnsTopic((fnArgs.epoch * ByteModulus) + fnArgs.round)
        /\ \A i \in 1..Len(fnArgs.transmitted) :
              LET other == fnArgs.transmitted[i]
              IN  /\ toEpochAndRoundUint40(other[1], other[2])
                        = toEpochAndRoundUint40(fnArgs.epoch, fnArgs.round)
                     => other = <<fnArgs.epoch, fnArgs.round>>
                  /\ TransmissionLogs(fnArgs.transmitted)[i].Topics[3]
                        = BytesToHash(LeftPadBytes(
                              Bytes(toEpochAndRoundUint40(fnArgs.epoch, fnArgs.round)),
                              HashLength))
                     => other = <<fnArgs.epoch, fnArgs.round>>
        /\ toEpochAndRoundUint40(fnArgs.epoch, fnArgs.round) < Pow2(HalfWordBits + ByteBits)
        /\ toEpochAndRoundUint40(fnArgs.epoch, fnArgs.round) >= 0

\* two reports are on the chain, one of them for the pair asked about and
\* one for a pair with the same sum of epoch and round: the answer is true
C17_Witness ==
    /\ fnResult # <<>>
    /\ fnResult[1].presentOnchain
    /\ fnResult[1].err = nil
    /\ fnArgs.epoch > 0
    /\ fnArgs.round > 0
    /\ \E i \in 1..Len(fnArgs.transmitted) :
          fnArgs.transmitted[i] = <<fnArgs.epoch, fnArgs.round>>
    /\ \E i \in 1..Len(fnArgs.transmitted) :
          /\ fnArgs.transmitted[i] # <<fnArgs.epoch, fnArgs.round>>
          /\ fnArgs.transmitted[i][1] + fnArgs.transmitted[i][2] = fnArgs.epoch + fnArgs.round

\* the step is a ReportBlocks call
IsReportCall == ret.op = "none" /\ ret'.op = "ReportBlocks"

(***************************************************************************)
(* C18: a ReportBlocks call, successful or failed, leaves the block cache  *)
(* and the callback cache with exactly the entries (key and insertion      *)
(* height) they held before; an entry appears in a cache only in a         *)
(* ReportWillBeTransmitted call.                                           *)
(***************************************************************************)
C18_ReportBlocksLeavesCaches ==
    [][/\ IsReportCall
          => /\ toBeTransmittedBlocks' = toBeTransmittedBlocks
             /\ toBeTransmittedCallbacks' = toBeTransmittedCallbacks
       /\ (\/ ~(toBeTransmittedBlocks'.cache \subseteq toBeTransmittedBlocks.cache)
           \/ ~(toBeTransmittedCallbacks'.cache \subseteq toBeTransmittedCallbacks.cache))
          => (IsTransmitCall /\ ret'.err = nil)]_vars

\* a call has returned at a height at which the block cache holds an entry
\* whose window has ended, and the callback cache holds an entry as well
C18_Witness ==
    /\ ret.op = "ReportBlocks"
    /\ toBeTransmittedCallbacks.cache # {}
    /\ \E e \in toBeTransmittedBlocks.cache :
          e.blockNumber + toBeTransmittedBlocks.evictionWindow < ret.currentHeight

(***************************************************************************)
(* C19: getCacheKey gives equal items the same key and gives two blocks,   *)
(* or two callbacks, that differ in blockNumber, confirmationDelay or      *)
(* requestID different keys, so that the lookup of an item's key finds an  *)
(* entry only if that very item was inserted.                              *)
(***************************************************************************)
C19_KeysDistinguishItems ==
    fnResult # <<>> =>
        /\ fnArgs.inserted = fnArgs.lookedUp
              => fnResult[1].insertedKey = fnResult[1].lookedUpKey
        /\ fnArgs.inserted # fnArgs.lookedUp
              => fnResult[1].insertedKey # fnResult[1].lookedUpKey
        /\ fnResult[1].found.err = nil => fnArgs.inserted = fnArgs.lookedUp

\* the report holds one output, which carries block b with a proof and no
\* callback
OnlyBlock(report, b) ==
    /\ Len(report.Outputs) = 1
    /\ CarriesBlock(report, b)
    /\ report.Outputs[1].Callbacks = <<>>

(***************************************************************************)
(* C20: a block that ReportWillBeTransmitted has recorded does not stand   *)
(* in the way of another block that has never been recorded: a             *)
(* ReportWillBeTransmitted call whose report holds only that other block   *)
(* is not refused as in flight, and ReportBlocks returns the other block   *)
(* when a RandomnessRequested log requests it with a supported delay, it   *)
(* is older than its delay and no NewTransmission log serves it.           *)
(***************************************************************************)
C20_OtherBlockNotBlocked ==
    /\ ret.op = "ReportWillBeTransmitted" =>
          \A b \in Blocks :
              (OnlyBlock(ret.report, b) /\ recordedAt[b] = 0)
              => ret.err.msg \notin {BlockInFlight, CallbackInFlight}
    /\ ReportBlocksReturned =>
          \A r \in EventsOf(randomnessRequestedTopic) :
              (/\ Reportable(r)
               /\ recordedAt[BlockOfRequest(r)] = 0
               /\ BlockOfRequest(r) \notin ServedBlocks)
              => BlockOfRequest(r) \in ReturnedBlocks

\* an entry of the cache whose window has ended at the height given
Expired(c, height) == {e \in c.cache : e.blockNumber + c.evictionWindow < height}

(***************************************************************************)
(* C21: every ReportWillBeTransmitted call runs an eviction pass over both *)
(* caches at the latest height of the chain: when a call made at height c  *)
(* has returned, neither cache holds an entry with                         *)
(* insertedAtHeight + evictionWindow < c.                                  *)
(***************************************************************************)
C21_EveryCallEvicts ==
    ret.op = "ReportWillBeTransmitted" =>
        /\ Expired(toBeTransmittedBlocks, chainHeight) = {}
        /\ Expired(toBeTransmittedCallbacks, chainHeight) = {}

(***************************************************************************)
(* C21, as the code has it: a ReportWillBeTransmitted call that succeeds   *)
(* runs an eviction pass over both caches at the height h it has read from *)
(* the poller, and when it has returned neither cache holds an entry with  *)
(* insertedAtHeight + evictionWindow < h; a call that fails runs no pass.  *)
(***************************************************************************)
C21_SuccessfulCallEvicts ==
    (ret.op = "ReportWillBeTransmitted" /\ ret.err = nil) =>
        /\ Expired(toBeTransmittedBlocks, ret.latestBlock[1].height) = {}
        /\ Expired(toBeTransmittedCallbacks, ret.latestBlock[1].height) = {}
        /\ ret.latestBlock[1].height = chainHeight

\* a call has succeeded at a height past the window of a block that an
\* earlier call had recorded and that its own report does not carry: the
\* entry of that block is gone
C21_Witness ==
    /\ ret.op = "ReportWillBeTransmitted"
    /\ ret.err = nil
    /\ \E b \in Blocks :
          /\ recordedAt[b] # 0
          /\ recordedAt[b] + toBeTransmittedBlocks.evictionWindow < chainHeight
          /\ ~CarriesBlock(ret.report, b)
          /\ \A e \in toBeTransmittedBlocks.cache : e.item # b

\* the cache holds an entry for the item, inserted at the height given
StoredAt(c, item, height) ==
    \E e \in c.cache : e.item = item /\ e.blockNumber = height

(***************************************************************************)
(* C22: when ReportWillBeTransmitted has succeeded with the latest height  *)
(* h, every block its report carries with a non-empty proof is in the      *)
(* block cache and every callback of the report is in the callback cache,  *)
(* each with insertedAtHeight = h: the eviction pass of the call removes   *)
(* none of the entries the call has inserted.                              *)
(***************************************************************************)
C22_StoredAtLatestHeight ==
    (ret.op = "ReportWillBeTransmitted" /\ ret.err = nil) =>
        /\ \A b \in Blocks :
              CarriesBlock(ret.report, b)
              => StoredAt(toBeTransmittedBlocks, b, ret.latestBlock[1].height)
        /\ \A cb \in Callbacks :
              CarriesCallback(ret.report, cb)
              => StoredAt(toBeTransmittedCallbacks, cb, ret.latestBlock[1].height)

\* the callbacks the report carries in outputs with an empty proof
EmptyProofCallbacks(report) ==
    UNION {OutputCallbacks(report.Outputs[i]) :
              i \in {k \in 1..Len(report.Outputs) : Len(report.Outputs[k].VRFProof) = 0}}

(***************************************************************************)
(* C23: the block of an output with an empty proof is neither looked up in *)
(* nor inserted into the block cache: ReportWillBeTransmitted refuses a    *)
(* report as "Block is already in-flight" only for a block carried with a  *)
(* proof, and a block the report carries with no proof gets no entry;      *)
(* the callbacks of such an output are still looked up (the call fails     *)
(* when one is in flight) and stored in the callback cache on success.     *)
(***************************************************************************)
C23_EmptyProofSkipsBlockCache ==
    [][IsTransmitCall =>
        /\ ret'.err.msg = BlockInFlight => CarriesBlock(ret'.report, ret'.err.item)
        /\ \A b \in Blocks :
              ~CarriesBlock(ret'.report, b)
              => /\ b \in claimedBlocks' => b \in claimedBlocks
                 /\ {e \in toBeTransmittedBlocks'.cache : e.item = b}
                       \subseteq toBeTransmittedBlocks.cache
        /\ \A cb \in EmptyProofCallbacks(ret'.report) :
              /\ cb \in claimedCallbacks => ret'.err # nil
              /\ ret'.err = nil => cb \in claimedCallbacks']_vars

\* a call has succeeded for a report with an output that has no proof, whose
\* block is in flight from an earlier call and whose callback is now in flight
C23_Witness ==
    /\ ret.op = "ReportWillBeTransmitted"
    /\ ret.err = nil
    /\ \E i \in 1..Len(ret.report.Outputs) :
          /\ Len(ret.report.Outputs[i].VRFProof) = 0
          /\ OutputBlock(ret.report.Outputs[i]) \in claimedBlocks
          /\ ~CarriesBlock(ret.report, OutputBlock(ret.report.Outputs[i]))
          /\ ret.report.Outputs[i].Callbacks # <<>>
          /\ OutputCallbacks(ret.report.Outputs[i]) \subseteq claimedCallbacks

(***************************************************************************)
(* C24: in every reachable state a block has an entry in the block cache   *)
(* iff it was inserted at some height H and the most recent eviction pass  *)
(* observed a height <= H + evictionWindow; the entry bears the height H.  *)
(***************************************************************************)
C24_PresentIffInsertedAndNotExpired ==
    \A b \in Blocks :
        /\ (\E e \in toBeTransmittedBlocks.cache : e.item = b)
              <=> (/\ recordedAt[b] # 0
                   /\ frame.lastPass <= recordedAt[b] + toBeTransmittedBlocks.evictionWindow)
        /\ \A e \in toBeTransmittedBlocks.cache :
              e.item = b => e.blockNumber = recordedAt[b]

(***************************************************************************)
(* C25: for every finalityDepth of the 32-bit unsigned type the eviction   *)
(* window of both caches is 2 * finalityDepth, and so it is never smaller  *)
(* than finalityDepth.                                                     *)
(***************************************************************************)
C25_WindowIsTwiceFinalityDepth ==
    fnResult # <<>> =>
        /\ fnResult[1].toBeTransmittedBlocks.evictionWindow = 2 * fnArgs.finalityDepth
        /\ fnResult[1].toBeTransmittedCallbacks.evictionWindow = 2 * fnArgs.finalityDepth
        /\ fnResult[1].toBeTransmittedBlocks.evictionWindow >= fnArgs.finalityDepth

(***************************************************************************)
(* C26: the blocks and callbacks one ReportBlocks call returns are those   *)
(* of a single state of the two caches: whatever ReportWillBeTransmitted   *)
(* commits beside it, the result is what ReportBlocks returns on the two   *)
(* caches as they were before or as they were after a commit, never a mix. *)
(***************************************************************************)
C26_ResultOfOneCacheState ==
    pc = <<"return">> =>
        \E s \in frame.seen :
            fnResult[1] = reportBlocks(frame.confirmationDelays, frame.answers,
                                       s[1], s[2], frame.currentHeight)

\* the blocks the requests of one kind induce: those of the requests that
\* are reportable and whose item (the block for a RandomnessRequested log,
\* the callback for a RandomnessFulfillmentRequested log) is in no cache entry
BlocksInducedByRequests ==
    {BlockOfRequest(r) : r \in
        {q \in EventsOf(randomnessRequestedTopic) :
            /\ Reportable(q)
            /\ \A e \in toBeTransmittedBlocks.cache : e.item # BlockOfRequest(q)}}

BlocksInducedByCallbacks ==
    {BlockOfRequest(r) : r \in
        {q \in EventsOf(randomnessFulfillmentRequestedTopic) :
            /\ Reportable(q)
            /\ \A e \in toBeTransmittedCallbacks.cache : e.item # CallbackOfRequest(q)}}

(***************************************************************************)
(* C27: an eligible RandomnessFulfillmentRequested log with a supported    *)
(* delay whose callback is not in the callback cache adds its beacon block *)
(* to the blocks ReportBlocks returns, also when no RandomnessRequested    *)
(* log names the block, unless a NewTransmission log served the block; the *)
(* blocks returned are the union of those induced by the two kinds of      *)
(* request, less the served ones.                                          *)
(***************************************************************************)
C27_CallbackRequestAddsItsBlock ==
    ReportBlocksReturned =>
        /\ BlocksInducedByCallbacks \ ServedBlocks \subseteq ReturnedBlocks
        /\ ReturnedBlocks =
              (BlocksInducedByRequests \cup BlocksInducedByCallbacks) \ ServedBlocks

(***************************************************************************)
(* C28: every block a successful ReportBlocks call returns carries the     *)
(* hash GetBlocks returned for the block's height; the heights fetched     *)
(* cover the height of every returned block, so no returned block has the  *)
(* zero hash.                                                              *)
(***************************************************************************)
C28_ReturnedBlocksCarryTheirHash ==
    ReportBlocksReturned =>
        \A b \in ret.blocks :
            /\ b.Hash = BlockHashAt(b.Height)
            /\ b.Hash # ZeroHash
            /\ \E h \in GetBlocks(ret.answers.getBlocks, {b.Height}).heads :
                  h.BlockNumber = b.Height /\ h.BlockHash = b.Hash

\* a block is returned that only a RandomnessFulfillmentRequested log names
C28_Witness ==
    /\ ReportBlocksReturned
    /\ EventsOf(randomnessRequestedTopic) = {}
    /\ \E b \in ret.blocks :
          \E r \in EventsOf(randomnessFulfillmentRequestedTopic) :
              BlockOfRequest(r) = block(b.Height, b.ConfirmationDelay)

\* the log has one of the four signatures, and its data decodes to the
\* event of that signature
Decodes(lg) ==
    /\ lg.EventSig \in VRFTopics
    /\ ParseLog(lg).err = nil
    /\ CastOk(ParseLog(lg).unpacked, lg.EventSig)

\* the log has one of the four signatures and does not decode to its event
FailsDecoding(lg) == lg.EventSig \in VRFTopics /\ ~Decodes(lg)

\* the events of the logs of one signature, in the order of the logs
EventsInOrder(logs, topic) ==
    LET ofKind == SelectSeq(logs, LAMBDA lg : lg.EventSig = topic)
    IN  [k \in 1..Len(ofKind) |-> ofKind[k].Data]

\* the four outputs of a result
OutputsOf(result) ==
    <<result.randomnessRequestedLogs, result.randomnessFulfillmentRequestedLogs,
      result.randomWordsFulfilledLogs, result.newTransmissionLogs>>

(***************************************************************************)
(* C29: unmarshalLogs partitions its input. When the logs of the four VRF  *)
(* signatures decode, each of them is in the output of its kind and in no  *)
(* other, in the order of the input; a log of any other signature is in    *)
(* no output and causes no error: the result is that of the input without  *)
(* such logs.                                                              *)
(***************************************************************************)
C29_UnmarshalLogsPartitions ==
    fnResult # <<>> =>
        /\ fnResult[1] =
              unmarshalLogs(SelectSeq(fnArgs, LAMBDA lg : lg.EventSig \in VRFTopics))
        /\ (\A k \in 1..Len(fnArgs) : ~FailsDecoding(fnArgs[k])) =>
              /\ fnResult[1].err = nil
              /\ OutputsOf(fnResult[1]) =
                    <<EventsInOrder(fnArgs, randomnessRequestedTopic),
                      EventsInOrder(fnArgs, randomnessFulfillmentRequestedTopic),
                      EventsInOrder(fnArgs, randomWordsFulfilledTopic),
                      EventsInOrder(fnArgs, newTransmissionTopic)>>

\* two different RandomnessRequested logs around a log of another signature
C29_Witness ==
    /\ fnResult # <<>>
    /\ Len(fnArgs) = 3
    /\ \A k \in 1..3 : ~FailsDecoding(fnArgs[k])
    /\ fnArgs[1].EventSig = randomnessRequestedTopic
    /\ fnArgs[2].EventSig \notin VRFTopics
    /\ fnArgs[3].EventSig = randomnessRequestedTopic
    /\ fnArgs[1] # fnArgs[3]
    /\ fnResult[1].randomnessRequestedLogs = <<fnArgs[1].Data, fnArgs[3].Data>>

\* the index of the first log that fails decoding
FirstFailure(logs) ==
    CHOOSE k \in 1..Len(logs) :
        FailsDecoding(logs[k]) /\ \A j \in 1..(k - 1) : ~FailsDecoding(logs[j])

(***************************************************************************)
(* C30: for each of the four kinds, a log of a known signature that fails  *)
(* decoding, or fails the type check after decoding, makes unmarshalLogs   *)
(* stop at that log and return an error: the outputs are those of the logs *)
(* before it, the log itself and the later logs are not in them.           *)
(***************************************************************************)
C30_FailureStopsAtTheLog ==
    (fnResult # <<>> /\ \E k \in 1..Len(fnArgs) : FailsDecoding(fnArgs[k])) =>
        /\ fnResult[1].err # nil
        /\ OutputsOf(fnResult[1]) =
              OutputsOf(unmarshalLogs(SubSeq(fnArgs, 1, FirstFailure(fnArgs) - 1)))

\* both ConfigSet logs were found and unpacked
ConfigSetsUnpacked ==
    /\ fnArgs.vrf.latest = "ok" /\ fnArgs.vrf.unpack = "ok"
    /\ fnArgs.dkg.latest = "ok" /\ fnArgs.dkg.unpack = "ok"

Shorter(s, t) == IF Len(s) <= Len(t) THEN Len(s) ELSE Len(t)

\* the committee pairs the entries of the event up to the shorter array
PairedUpToShorter(committee, event) ==
    /\ Len(committee.Signers) = Len(committee.Transmitters)
    /\ Len(committee.Signers) = Shorter(event.Signers, event.Transmitters)
    /\ \A i \in 1..Len(committee.Signers) :
          /\ committee.Signers[i] = event.Signers[i]
          /\ committee.Transmitters[i] = event.Transmitters[i]

(***************************************************************************)
(* C31: DKGVRFCommittees validates no length and iterates the index of the *)
(* shorter array: for each contract the committee has as many signers as   *)
(* transmitters, entry i of each being entry i of the ConfigSet event, and *)
(* the call completes normally also when the two arrays of the event       *)
(* differ in length.                                                       *)
(***************************************************************************)
C31_CommitteesPairUpToShorter ==
    (fnResult # <<>> /\ ConfigSetsUnpacked) =>
        /\ ~fnResult[1].panic
        /\ fnResult[1].err = nil
        /\ PairedUpToShorter(fnResult[1].vrfCommittee, fnArgs.vrf)
        /\ PairedUpToShorter(fnResult[1].dkgCommittee, fnArgs.dkg)

(***************************************************************************)
(* C32: isBlockEligible is never true when nextBeaconOutputHeight +        *)
(* confDelay >= currentHeight as integers, whatever the unsigned           *)
(* nextBeaconOutputHeight, the confDelay and the signed currentHeight,     *)
(* negative heights and sums beyond the word included.                     *)
(***************************************************************************)
C32_NeverEligibleBeforeDelayEnds ==
    (/\ fnResult # <<>>
     /\ fnArgs.nextBeaconOutputHeight + fnArgs.confDelay >= fnArgs.currentHeight)
        => ~fnResult[1]

(***************************************************************************)
(* C33: a block recorded in flight at height H that is still requested,    *)
(* not served on chain and eligible is returned again by every ReportBlocks *)
(* call made at a height greater than H + evictionWindow, whether or not a *)
(* successful ReportWillBeTransmitted call has evicted its entry meanwhile. *)
(***************************************************************************)
C33_StuckBlockIsReturnedAgain ==
    ReportBlocksReturned =>
        \A r \in EventsOf(randomnessRequestedTopic) :
            (/\ recordedAt[BlockOfRequest(r)] # 0
             /\ ret.currentHeight >
                   recordedAt[BlockOfRequest(r)] + toBeTransmittedBlocks.evictionWindow
             /\ Reportable(r)
             /\ BlockOfRequest(r) \notin ServedBlocks)
            => BlockOfRequest(r) \in ReturnedBlocks

\* the caller holds the mutex and has a step to take
HoldsMutex(p) ==
    IF p = Reporter
    THEN pc[p] \in {"scanRandomnessRequests", "scanCallbacks"}
    ELSE pc[p] \in {"validate", "LatestBlock", "AddItem", "Unlock"}

\* the caller waits at a Lock()
WaitsForMutex(p) ==
    IF p = Reporter
    THEN pc[p] \in {"filterEligibleRandomnessRequests", "filterEligibleCallbacks"}
    ELSE pc[p] = "Lock"

(***************************************************************************)
(* C34: the mutex is released on every path of ReportWillBeTransmitted and *)
(* of the two filters: it is held only by a caller on its way to the       *)
(* Unlock, and under fair scheduling every call that waits for the mutex   *)
(* gets it and returns.                                                    *)
(***************************************************************************)
C34_WaitingCallCompletes ==
    /\ [](transmittedMu = "locked" <=> \E p \in Callers \cup {Reporter} : HoldsMutex(p))
    /\ \A p \in Callers \cup {Reporter} : WaitsForMutex(p) ~> (pc[p] = "returned")

\* a caller of each kind waits while the other ReportWillBeTransmitted call,
\* on an error path, holds the mutex
C34_Witness ==
    /\ transmittedMu = "locked"
    /\ pc[1] = "Unlock" /\ frame[1].err # nil
    /\ WaitsForMutex(2)
    /\ pc[Reporter] = "filterEligibleCallbacks"

====
